---- MODULE Spec2Model ----
(***************************************************************************)
(* Model of the checklist builders of Root/Chk_Lst/src: the step           *)
(* extractors (load_steps_from_excel of v4f1, read_steps of v5), the       *)
(* identifier sanitizer, the header document assembler (build_sopinfo) and *)
(* the template injectors of checklist_builder.py, v4f1, v4f_v1a, v5 and   *)
(* the Prev builder.                                                       *)
(*                                                                         *)
(* Text is modelled character by character: a Python str is a sequence of  *)
(* one-character strings, so that strip, lower, replace and the regular    *)
(* expressions are computed the way the code computes them.                *)
(***************************************************************************)
EXTENDS Integers, Sequences, FiniteSets, TLC

VARIABLES
    \* the sanitizer: its argument, its result, the result sanitized again
    s_in, s_once, s_twice, slug_pc,
    \* the step extractors: the Steps sheet (rows of cells), the list returned
    \* by load_steps_from_excel (v4f1) and the list returned by read_steps (v5)
    sheet, v4_steps, v4_done, v5_steps, v5_done,
    \* the document assembler: the raw header map and the document built
    header_in, sop_out, hdr_done,
    \* one build: the builder that runs, the template text, the steps and the
    \* header values handed to the injector, the text as the step injection
    \* left it (or that it raised), the output file (written or not, and its
    \* text) and how the run ended ("start", "done", "error")
    builder, tpl_text, doc_steps, doc_meta, injected, out_file, run,
    \* the header readers of v5: the rows of the Header sheet, the map of
    \* read_header_key_value, the map of read_header_row_values and the row it
    \* took as field row (-1 for none)
    header_sheet, kv, rv, rv_best_i,
    \* find_steps_header_row: the index it returned (-1 for None) and whether
    \* it has run
    steps_hdr_i, scan_done,
    \* the resolvers of v5: a label, the results of canonical_header_key and
    \* of canon_step_col for it, and whether they have run
    res_label, header_key, step_key, resolved,
    \* the loop of load_steps_from_excel (v4f1) and its call of
    \* ensure_unique_id: the arguments of the call, the suffix it probes, the
    \* id it returns, the statement the loader is at ("idle", "loop", "test",
    \* "probe", "add", "done"), the index of the row, the ids issued, and
    \* for each row of the data frame the candidate id the loader makes of
    \* it (<<>> for a blank row)
    eu_candidate, eu_used, eu_i, eu_final, eu_pc, eu_idx, eu_ids, eu_todo

slugVars == <<s_in, s_once, s_twice, slug_pc>>

stepVars == <<sheet, v4_steps, v4_done, v5_steps, v5_done>>

headerVars == <<header_in, sop_out, hdr_done>>

injectVars == <<builder, tpl_text, doc_steps, doc_meta, injected, out_file, run>>

sheetVars == <<header_sheet, kv, rv, rv_best_i, steps_hdr_i, scan_done>>

resolveVars == <<res_label, header_key, step_key, resolved>>

probeVars == <<eu_candidate, eu_used, eu_i, eu_final, eu_pc, eu_idx, eu_ids, eu_todo>>

vars == <<s_in, s_once, s_twice, slug_pc,
          sheet, v4_steps, v4_done, v5_steps, v5_done,
          header_in, sop_out, hdr_done,
          builder, tpl_text, doc_steps, doc_meta, injected, out_file, run,
          header_sheet, kv, rv, rv_best_i, steps_hdr_i, scan_done,
          res_label, header_key, step_key, resolved,
          eu_candidate, eu_used, eu_i, eu_final, eu_pc, eu_idx, eu_ids, eu_todo>>

\* the parts of the state a specification does not use stay as they are here
SlugIdle ==
    /\ s_in = <<>>
    /\ s_once = <<>>
    /\ s_twice = <<>>
    /\ slug_pc = "idle"

StepsIdle ==
    /\ sheet = <<>>
    /\ v4_steps = <<>>
    /\ v4_done = FALSE
    /\ v5_steps = <<>>
    /\ v5_done = FALSE

HeaderIdle ==
    /\ header_in = <<>>
    /\ sop_out = <<>>
    /\ hdr_done = FALSE

SheetIdle ==
    /\ header_sheet = <<>>
    /\ kv = <<>>
    /\ rv = <<>>
    /\ rv_best_i = -1
    /\ steps_hdr_i = -1
    /\ scan_done = FALSE

ResolveIdle ==
    /\ res_label = <<>>
    /\ header_key = <<>>
    /\ step_key = <<>>
    /\ resolved = FALSE

ProbeIdle ==
    /\ eu_candidate = <<>>
    /\ eu_used = {}
    /\ eu_i = 2
    /\ eu_final = <<>>
    /\ eu_pc = "idle"
    /\ eu_idx = 0
    /\ eu_ids = <<>>
    /\ eu_todo = <<>>

InjectIdle ==
    /\ builder = "none"
    /\ tpl_text = <<>>
    /\ doc_steps = <<>>
    /\ doc_meta = <<>>
    /\ injected = [ok |-> FALSE, text |-> <<>>]
    /\ out_file = [written |-> FALSE, text |-> <<>>]
    /\ run = "idle"

(***************************************************************************)
(* Characters and the str methods the builders use                         *)
(***************************************************************************)
Digits == {"0", "1", "2", "3", "4", "5", "6", "7", "8", "9"}

Lowers == {"a", "b", "c", "d", "e", "f", "g", "h", "i", "j", "k", "l", "m",
           "n", "o", "p", "q", "r", "s", "t", "u", "v", "w", "x", "y", "z"}

Uppers == {"A", "B", "C", "D", "E", "F", "G", "H", "I", "J", "K", "L", "M",
           "N", "O", "P", "Q", "R", "S", "T", "U", "V", "W", "X", "Y", "Z"}

\* [A-Za-z0-9]
AlNum == Digits \cup Lowers \cup Uppers

\* what str.strip() removes and what \s matches
Whitespace == {" ", "\t", "\n", "\r", "U+000B", "U+000C",
               "U+001C", "U+001D", "U+001E", "U+001F",
               "U+0085", "U+00A0", "U+1680", "U+2000", "U+2001", "U+2002",
               "U+2003", "U+2004", "U+2005", "U+2006", "U+2007", "U+2008",
               "U+2009", "U+200A", "U+2028", "U+2029", "U+202F", "U+205F",
               "U+3000"}

\* word characters of the regular expressions (\b, \w)
WordChars == AlNum \cup {"_"}

LowerOf == [c \in Uppers |->
    CASE c = "A" -> "a" [] c = "B" -> "b" [] c = "C" -> "c" [] c = "D" -> "d"
      [] c = "E" -> "e" [] c = "F" -> "f" [] c = "G" -> "g" [] c = "H" -> "h"
      [] c = "I" -> "i" [] c = "J" -> "j" [] c = "K" -> "k" [] c = "L" -> "l"
      [] c = "M" -> "m" [] c = "N" -> "n" [] c = "O" -> "o" [] c = "P" -> "p"
      [] c = "Q" -> "q" [] c = "R" -> "r" [] c = "S" -> "s" [] c = "T" -> "t"
      [] c = "U" -> "u" [] c = "V" -> "v" [] c = "W" -> "w" [] c = "X" -> "x"
      [] c = "Y" -> "y" [] c = "Z" -> "z"]

\* str.lower() on one character
LowerChar(c) == IF c \in Uppers THEN LowerOf[c] ELSE c

RECURSIVE Lower(_)
\* str.lower()
Lower(s) == IF s = <<>> THEN <<>> ELSE <<LowerChar(Head(s))>> \o Lower(Tail(s))

RECURSIVE LStrip(_, _)
LStrip(s, chars) ==
    IF s = <<>> \/ Head(s) \notin chars THEN s ELSE LStrip(Tail(s), chars)

RECURSIVE RStrip(_, _)
RStrip(s, chars) ==
    IF s = <<>> \/ s[Len(s)] \notin chars THEN s
    ELSE RStrip(SubSeq(s, 1, Len(s) - 1), chars)

\* str.strip(chars); str.strip() is StripChars(s, Whitespace)
StripChars(s, chars) == RStrip(LStrip(s, chars), chars)

\* all strings over an alphabet, up to a length
StringsUpTo(alphabet, n) == UNION {[1..k -> alphabet] : k \in 0..n}

RECURSIVE Join(_, _)
\* sep.join(parts)
Join(parts, sep) ==
    IF parts = <<>> THEN <<>>
    ELSE IF Len(parts) = 1 THEN parts[1]
    ELSE parts[1] \o sep \o Join(Tail(parts), sep)

DigitChar(d) == <<"0", "1", "2", "3", "4", "5", "6", "7", "8", "9">>[d + 1]

DigitVal(c) == CHOOSE d \in 0..9 : DigitChar(d) = c

RECURSIVE NatToStr(_)
NatToStr(n) ==
    IF n < 10 THEN <<DigitChar(n)>>
    ELSE NatToStr(n \div 10) \o <<DigitChar(n % 10)>>

\* str(n) of an int, as in f"step_{order_val}"
IntToStr(n) == IF n < 0 THEN <<"-">> \o NatToStr(-n) ELSE NatToStr(n)

RECURSIVE ParseDigits(_, _, _)
\* the digits of an int literal: groups of digits, single underscores between
ParseDigits(s, acc, afterUnderscore) ==
    IF s = <<>> THEN [ok |-> ~afterUnderscore, v |-> acc]
    ELSE IF Head(s) \in Digits
         THEN ParseDigits(Tail(s), acc * 10 + DigitVal(Head(s)), FALSE)
    ELSE IF Head(s) = "_" /\ ~afterUnderscore THEN ParseDigits(Tail(s), acc, TRUE)
    ELSE [ok |-> FALSE, v |-> 0]

\* int(s) of a str: ok is FALSE where Python raises ValueError
ParseInt(s) ==
    LET t == StripChars(s, Whitespace)
        signed == t # <<>> /\ Head(t) \in {"+", "-"}
        body == IF signed THEN Tail(t) ELSE t
        r == IF body # <<>> /\ Head(body) \in Digits
             THEN ParseDigits(body, 0, FALSE) ELSE [ok |-> FALSE, v |-> 0]
    IN  IF signed /\ Head(t) = "-" THEN [ok |-> r.ok, v |-> 0 - r.v] ELSE r

(***************************************************************************)
(* Sheet cells. A cell is blank (None for openpyxl, NaN for pandas), an    *)
(* integer or a string.                                                    *)
(***************************************************************************)
NoneCell == [t |-> "none", i |-> 0, s |-> <<>>]

IntCell(n) == [t |-> "int", i |-> n, s |-> <<>>]

StrCell(str) == [t |-> "str", i |-> 0, s |-> str]

\* str(v) of a cell that is not blank
CellStr(c) == IF c.t = "int" THEN IntToStr(c.i) ELSE c.s

\* pd.isna(v)
isna(c) == c.t = "none"

(***************************************************************************)
(* v4f1: slugify_step_id                                                   *)
(***************************************************************************)
\* the literal prefix of f"step_{s}"
StepPrefix == <<"s", "t", "e", "p", "_">>

RECURSIVE SubNonAlnumRuns(_, _)
\* re.sub(r"[^A-Za-z0-9]+", "_", s): every maximal run of other characters
\* becomes one underscore (inRun: the previous character was in such a run)
SubNonAlnumRuns(s, inRun) ==
    IF s = <<>> THEN <<>>
    ELSE IF Head(s) \in AlNum THEN <<Head(s)>> \o SubNonAlnumRuns(Tail(s), FALSE)
    ELSE IF inRun THEN SubNonAlnumRuns(Tail(s), TRUE)
    ELSE <<"_">> \o SubNonAlnumRuns(Tail(s), TRUE)

\* a slip in the order of the statements: the underscores are trimmed before
\* the runs are replaced and not after
slugify_step_id_StripFirst(s) ==
    LET s1 == StripChars(s, Whitespace) IN
    IF s1 = <<>> THEN <<>>
    ELSE LET s2 == SubNonAlnumRuns(StripChars(s1, {"_"}), FALSE)
             s3 == IF s2 # <<>> /\ s2[1] \in Digits THEN StepPrefix \o s2 ELSE s2
         IN  Lower(s3)

\* a sanitizer that leaves a leading digit as it is
slugify_step_id_NoPrefix(s) ==
    LET s1 == StripChars(s, Whitespace) IN
    IF s1 = <<>> THEN <<>>
    ELSE Lower(StripChars(SubNonAlnumRuns(s1, FALSE), {"_"}))

slugify_step_id(s) ==
    LET s1 == StripChars(s, Whitespace) IN
    IF s1 = <<>> THEN <<>>
    ELSE LET s2 == SubNonAlnumRuns(s1, FALSE)
             s3 == StripChars(s2, {"_"})
             s4 == IF s3 # <<>> /\ s3[1] \in Digits THEN StepPrefix \o s3 ELSE s3
         IN  Lower(s4)

(***************************************************************************)
(* list.sort(key=order): Python's sort is stable. The list is sorted by    *)
(* insertion, each record going behind the records whose order is not      *)
(* greater than its own.                                                   *)
(***************************************************************************)
RECURSIVE InsertBehindEqual(_, _)
InsertBehindEqual(sorted, x) ==
    IF sorted = <<>> THEN <<x>>
    ELSE IF sorted[1].order <= x.order
         THEN <<sorted[1]>> \o InsertBehindEqual(Tail(sorted), x)
    ELSE <<x>> \o sorted

RECURSIVE InsertBeforeEqual(_, _)
InsertBeforeEqual(sorted, x) ==
    IF sorted = <<>> THEN <<x>>
    ELSE IF sorted[1].order < x.order
         THEN <<sorted[1]>> \o InsertBeforeEqual(Tail(sorted), x)
    ELSE <<x>> \o sorted

RECURSIVE SortFrom(_, _)
SortFrom(sorted, rest) ==
    IF rest = <<>> THEN sorted
    ELSE SortFrom(InsertBehindEqual(sorted, Head(rest)), Tail(rest))

RECURSIVE SortFromUnstable(_, _)
SortFromUnstable(sorted, rest) ==
    IF rest = <<>> THEN sorted
    ELSE SortFromUnstable(InsertBeforeEqual(sorted, Head(rest)), Tail(rest))

\* a sort that is not stable: a record goes in front of the records of equal order
SortByOrder_Unstable(steps) == SortFromUnstable(<<>>, steps)

SortByOrder(steps) == SortFrom(<<>>, steps)

(***************************************************************************)
(* v4f1: col_lookup, ensure_unique_id, load_steps_from_excel               *)
(***************************************************************************)
\* the name pandas gives column j (1-based here): the header cell, or
\* "Unnamed: <j-1>" for a blank header cell; then str(c).strip()
ColumnName(columns, j) ==
    IF isna(columns[j]) THEN <<"U", "n", "n", "a", "m", "e", "d", ":", " ">> \o IntToStr(j - 1)
    ELSE StripChars(CellStr(columns[j]), Whitespace)

\* the column a dict {name: column} holds for a name: the last one of that
\* name, 0 when there is none
ColumnOfName(names, name) ==
    LET js == {j \in 1..Len(names) : names[j] = name}
    IN  IF js = {} THEN 0 ELSE CHOOSE j \in js : \A k \in js : k <= j

\* col_lookup(df, *candidates): the column (its index, 0 for None) of the
\* first candidate that names a column exactly, else of the first candidate
\* that names one case-insensitively
col_lookup(columns, candidates) ==
    LET names == [j \in 1..Len(columns) |-> ColumnName(columns, j)]
        lowered == [j \in 1..Len(columns) |-> Lower(names[j])]
        exact == {k \in 1..Len(candidates) : ColumnOfName(names, candidates[k]) # 0}
        loose == {k \in 1..Len(candidates) :
                     ColumnOfName(lowered, Lower(candidates[k])) # 0}
        first(ks) == CHOOSE k \in ks : \A m \in ks : k <= m
    IN  IF exact # {} THEN ColumnOfName(names, candidates[first(exact)])
        ELSE IF loose # {} THEN ColumnOfName(lowered, Lower(candidates[first(loose)]))
        ELSE 0

\* a probe that does not move on to the next suffix
NextProbe_Same(i) == i

\* i += 1
NextProbe(i) == i + 1

Suffixed(candidate, i) == candidate \o <<"_">> \o IntToStr(i)

\* a probe that stops at the first suffix, used or not
ProbeSuffix_NoLoop(candidate, used, i) == i

RECURSIVE ProbeSuffix(_, _, _)
\* while f"{candidate}_{i}" in used: i += 1
ProbeSuffix(candidate, used, i) ==
    IF Suffixed(candidate, i) \in used THEN ProbeSuffix(candidate, used, i + 1) ELSE i

\* a unique-id pass that takes the candidate as it is
ensure_unique_id_NoProbe(candidate, used) ==
    [id |-> candidate, used |-> used \cup {candidate}]

\* ensure_unique_id(candidate, used): the id returned and the set afterwards
ensure_unique_id(candidate, used) ==
    IF candidate \notin used
    THEN [id |-> candidate, used |-> used \cup {candidate}]
    ELSE LET final == Suffixed(candidate, ProbeSuffix(candidate, used, 2))
         IN  [id |-> final, used |-> used \cup {final}]

\* row.get(col): the cell of a column, NaN where the row has none
RowGet(row, col) == IF col = 0 \/ col > Len(row) THEN NoneCell ELSE row[col]

\* `col and not pd.isna(row.get(col))`
Present(row, col) == col # 0 /\ ~isna(RowGet(row, col))

\* int(v) of a cell: ok is FALSE where Python raises
CellInt(c) == IF c.t = "int" THEN [ok |-> TRUE, v |-> c.i] ELSE ParseInt(c.s)

\* the columns load_steps_from_excel looks up
v4f1_columns(columns) ==
    [order    |-> col_lookup(columns, <<<<"S", "t", "e", "p", "O", "r", "d", "e", "r">>, <<"O", "r", "d", "e", "r">>, <<"S", "e", "q">>>>),
     step_id  |-> col_lookup(columns, <<<<"S", "t", "e", "p", "I", "D">>, <<"S", "t", "e", "p", " ", "I", "d">>, <<"I", "D">>>>),
     title    |-> col_lookup(columns, <<<<"T", "i", "t", "l", "e">>, <<"S", "t", "e", "p", "T", "i", "t", "l", "e">>>>),
     cmd      |-> col_lookup(columns, <<<<"C", "o", "m", "m", "a", "n", "d">>, <<"C", "m", "d">>>>),
     input    |-> col_lookup(columns, <<<<"I", "n", "p", "u", "t", "N", "e", "e", "d", "e", "d">>, <<"I", "n", "p", "u", "t", "s">>>>),
     hints    |-> col_lookup(columns, <<<<"H", "i", "n", "t", "s">>, <<"H", "i", "n", "t">>>>),
     program  |-> col_lookup(columns, <<<<"P", "r", "o", "g", "r", "a", "m">>>>),
     variants |-> col_lookup(columns, <<<<"V", "a", "r", "i", "a", "n", "t", "s">>>>),
     phase    |-> col_lookup(columns, <<<<"P", "h", "a", "s", "e">>>>),
     out_file |-> col_lookup(columns, <<<<"E", "x", "p", "e", "c", "t", "e", "d", "O", "u", "t", "p", "u", "t", "F", "i", "l", "e">>, <<"O", "u", "t", "p", "u", "t", "F", "i", "l", "e">>,
                                        <<"E", "x", "p", "e", "c", "t", "e", "d", " ", "O", "u", "t", "p", "u", "t", " ", "F", "i", "l", "e">>>>),
     out_fold |-> col_lookup(columns, <<<<"E", "x", "p", "e", "c", "t", "e", "d", "O", "u", "t", "p", "u", "t", "F", "o", "l", "d", "e", "r">>, <<"O", "u", "t", "p", "u", "t", "F", "o", "l", "d", "e", "r">>,
                                        <<"E", "x", "p", "e", "c", "t", "e", "d", " ", "O", "u", "t", "p", "u", "t", " ", "F", "o", "l", "d", "e", "r">>>>)]

\* one labelled fragment, or nothing when the column has no value in the row
Fragment(row, col, label) ==
    IF Present(row, col) THEN <<label \o CellStr(RowGet(row, col))>> ELSE <<>>

\* the body of the loop of load_steps_from_excel for one row that is not
\* blank: the step object and used_ids afterwards. idx is the row's index in
\* the data frame (0-based); `row` of the step is the index the record was
\* read from and `candidate` the id before ensure_unique_id, both kept to
\* state where a record came from (they are not serialized).
v4f1_step(row, idx, c, used_ids) ==
    LET order_val ==
            IF Present(row, c.order)
            THEN LET p == CellInt(RowGet(row, c.order))
                 IN  IF p.ok THEN p.v ELSE idx + 1
            ELSE idx + 1
        raw_step_id ==
            IF Present(row, c.step_id)
            THEN StripChars(CellStr(RowGet(row, c.step_id)), Whitespace)
            ELSE <<>>
        slug == slugify_step_id(raw_step_id)
        candidate == IF slug # <<>> THEN slug ELSE StepPrefix \o IntToStr(order_val)
        unique == ensure_unique_id(candidate, used_ids)
        safe_id == unique.id
        title_val ==
            IF Present(row, c.title)
            THEN StripChars(CellStr(RowGet(row, c.title)), Whitespace)
            ELSE IF StripChars(raw_step_id, Whitespace) # <<>>
                 THEN StripChars(raw_step_id, Whitespace)
            ELSE safe_id
        cmd_parts ==
            (IF Present(row, c.cmd)
             THEN <<RStrip(CellStr(RowGet(row, c.cmd)), Whitespace)>> ELSE <<>>)
            \o Fragment(row, c.program, <<"[", "P", "r", "o", "g", "r", "a", "m", "]", " ">>)
            \o Fragment(row, c.variants, <<"[", "V", "a", "r", "i", "a", "n", "t", "s", "]", " ">>)
        command_val == StripChars(Join(cmd_parts, <<"\n", "\n">>), Whitespace)
        reminder_parts ==
            Fragment(row, c.input, <<"I", "n", "p", "u", "t", "s", ":", " ">>)
            \o Fragment(row, c.out_file, <<"O", "u", "t", "F", "i", "l", "e", ":", " ">>)
            \o Fragment(row, c.out_fold, <<"O", "u", "t", "F", "o", "l", "d", "e", "r", ":", " ">>)
            \o Fragment(row, c.hints, <<"H", "i", "n", "t", "s", ":", " ">>)
            \o Fragment(row, c.phase, <<"P", "h", "a", "s", "e", ":", " ">>)
        kept == SelectSeq(reminder_parts, LAMBDA p : StripChars(p, Whitespace) # <<>>)
        reminder_val == Join(kept, <<" ", "|", " ">>)
    IN  [step |-> [id |-> safe_id, order |-> order_val, title |-> title_val,
                   command |-> command_val, reminder |-> reminder_val,
                   notes |-> <<>>, runs |-> <<>>, row |-> idx,
                   candidate |-> candidate],
         used |-> unique.used]

RECURSIVE v4f1_rows(_, _, _, _, _)
\* for idx, row in df.iterrows(): blank rows are skipped
v4f1_rows(df, c, idx, steps, used_ids) ==
    IF idx >= Len(df) THEN steps
    ELSE LET row == df[idx + 1] IN
         IF \A j \in 1..Len(row) : isna(row[j])
         THEN v4f1_rows(df, c, idx + 1, steps, used_ids)
         ELSE LET r == v4f1_step(row, idx, c, used_ids)
              IN  v4f1_rows(df, c, idx + 1, Append(steps, r.step), r.used)

\* load_steps_from_excel of v4f1 on a sheet: pandas takes the first row as
\* the column names and the rows below it as the data frame
load_steps_from_excel(rows) ==
    IF rows = <<>> THEN <<>>
    ELSE SortByOrder(v4f1_rows(Tail(rows), v4f1_columns(Head(rows)), 0, <<>>, {}))

(***************************************************************************)
(* v5: utilities and the step extractor read_steps                         *)
(***************************************************************************)
\* norm(v): "" if v is None else str(v).strip()
norm(c) == IF c.t = "none" THEN <<>> ELSE StripChars(CellStr(c), Whitespace)

\* low(v): norm(v).lower()
low(c) == Lower(norm(c))

\* boolish(v, default)
boolish(c, default) ==
    LET s == low(c) IN
    IF s \in {<<"y">>, <<"y", "e", "s">>, <<"t", "r", "u", "e">>, <<"1">>, <<"d", "o", "n", "e">>, <<"c", "o", "m", "p", "l", "e", "t", "e">>, <<"c", "o", "m", "p", "l", "e", "t", "e", "d">>}
    THEN TRUE
    ELSE IF s \in {<<"n">>, <<"n", "o">>, <<"f", "a", "l", "s", "e">>, <<"0">>, <<>>} THEN FALSE
    ELSE default

\* the result None of a resolver; no canonical key is the empty string
NoKey == <<>>

\* a table in which `name` is a synonym of two columns, id and title
STEP_COL_SYNONYMS_Overlap == <<
    <<<<"o", "r", "d", "e", "r">>, {<<"o", "r", "d", "e", "r">>, <<"s", "t", "e", "p">>, <<"s", "t", "e", "p", "_", "n", "o">>, <<"s", "t", "e", "p", " ", "n", "u", "m", "b", "e", "r">>, <<"s", "e", "q">>, <<"s", "e", "q", "u", "e", "n", "c", "e">>}>>,
    <<<<"i", "d">>, {<<"i", "d">>, <<"s", "t", "e", "p", "_", "i", "d">>, <<"c", "o", "d", "e">>, <<"n", "a", "m", "e">>}>>,
    <<<<"t", "i", "t", "l", "e">>, {<<"t", "i", "t", "l", "e">>, <<"s", "t", "e", "p", "_", "t", "i", "t", "l", "e">>, <<"n", "a", "m", "e">>}>>,
    <<<<"c", "o", "m", "m", "a", "n", "d">>, {<<"c", "o", "m", "m", "a", "n", "d">>, <<"c", "m", "d">>, <<"p", "r", "o", "c", "e", "d", "u", "r", "e">>, <<"i", "n", "s", "t", "r", "u", "c", "t", "i", "o", "n", "s">>}>>,
    <<<<"r", "e", "m", "i", "n", "d", "e", "r">>, {<<"r", "e", "m", "i", "n", "d", "e", "r">>, <<"h", "i", "n", "t", "s">>, <<"h", "i", "n", "t">>, <<"t", "i", "p", "s">>, <<"t", "i", "p">>}>>,
    <<<<"n", "o", "t", "e", "s">>, {<<"n", "o", "t", "e", "s">>, <<"r", "u", "n", "_", "n", "o", "t", "e", "s">>, <<"c", "o", "m", "m", "e", "n", "t", "s">>}>>,
    <<<<"d", "o", "n", "e">>, {<<"d", "o", "n", "e">>, <<"s", "t", "a", "t", "u", "s">>, <<"c", "o", "m", "p", "l", "e", "t", "e">>, <<"c", "o", "m", "p", "l", "e", "t", "e", "d">>}>> >>

\* STEP_COL_SYNONYMS, in the order of the dict: <<canonical key, synonyms>>
STEP_COL_SYNONYMS == <<
    <<<<"o", "r", "d", "e", "r">>, {<<"o", "r", "d", "e", "r">>, <<"s", "t", "e", "p">>, <<"s", "t", "e", "p", "_", "n", "o">>, <<"s", "t", "e", "p", " ", "n", "u", "m", "b", "e", "r">>, <<"s", "e", "q">>, <<"s", "e", "q", "u", "e", "n", "c", "e">>}>>,
    <<<<"i", "d">>, {<<"i", "d">>, <<"s", "t", "e", "p", "_", "i", "d">>, <<"c", "o", "d", "e">>}>>,
    <<<<"t", "i", "t", "l", "e">>, {<<"t", "i", "t", "l", "e">>, <<"s", "t", "e", "p", "_", "t", "i", "t", "l", "e">>, <<"n", "a", "m", "e">>}>>,
    <<<<"c", "o", "m", "m", "a", "n", "d">>, {<<"c", "o", "m", "m", "a", "n", "d">>, <<"c", "m", "d">>, <<"p", "r", "o", "c", "e", "d", "u", "r", "e">>, <<"i", "n", "s", "t", "r", "u", "c", "t", "i", "o", "n", "s">>}>>,
    <<<<"r", "e", "m", "i", "n", "d", "e", "r">>, {<<"r", "e", "m", "i", "n", "d", "e", "r">>, <<"h", "i", "n", "t", "s">>, <<"h", "i", "n", "t">>, <<"t", "i", "p", "s">>, <<"t", "i", "p">>}>>,
    <<<<"n", "o", "t", "e", "s">>, {<<"n", "o", "t", "e", "s">>, <<"r", "u", "n", "_", "n", "o", "t", "e", "s">>, <<"c", "o", "m", "m", "e", "n", "t", "s">>}>>,
    <<<<"d", "o", "n", "e">>, {<<"d", "o", "n", "e">>, <<"s", "t", "a", "t", "u", "s">>, <<"c", "o", "m", "p", "l", "e", "t", "e">>, <<"c", "o", "m", "p", "l", "e", "t", "e", "d">>}>> >>

\* for canon, syns in table.items(): if key in syns: return canon
FirstCanon(table, key) ==
    LET hits == {k \in 1..Len(table) : key \in table[k][2]}
    IN  IF hits = {} THEN NoKey
        ELSE table[CHOOSE k \in hits : \A m \in hits : k <= m][1]

\* canon_step_col(name), of a cell already passed through norm or not
canon_step_col(c) == FirstCanon(STEP_COL_SYNONYMS, low(c))

\* the window of find_steps_header_row
StepsScanRows == 30

\* the least number of known columns a header row holds
MinHeaderHits == 3

\* the number of consecutive blank rows that ends read_steps
StepsBlankStreak == 10

\* the number of cells of a row that name a known step column
StepHits(row) ==
    Cardinality({j \in 1..Len(row) : canon_step_col(StrCell(norm(row[j]))) # NoKey})

RECURSIVE ScanStepRows(_, _, _, _, _)
\* the loop of find_steps_header_row over rows i .. n-1 (0-based)
ScanStepRows(rows, i, n, best_i, best_hits) ==
    IF i >= n THEN [best_i |-> best_i, best_hits |-> best_hits]
    ELSE LET hits == StepHits(rows[i + 1])
         IN  IF hits > best_hits THEN ScanStepRows(rows, i + 1, n, i, hits)
             ELSE ScanStepRows(rows, i + 1, n, best_i, best_hits)

\* a scan that goes on to the last row of the sheet
find_steps_header_row_WholeSheet(rows) ==
    LET b == ScanStepRows(rows, 0, Len(rows), -1, 0)
    IN  IF b.best_i = -1 \/ b.best_hits < MinHeaderHits THEN -1 ELSE b.best_i

\* find_steps_header_row(rows): the 0-based index of the header row, -1 for None
find_steps_header_row(rows) ==
    LET n == IF Len(rows) < StepsScanRows THEN Len(rows) ELSE StepsScanRows
        b == ScanStepRows(rows, 0, n, -1, 0)
    IN  IF b.best_i = -1 \/ b.best_hits < MinHeaderHits THEN -1 ELSE b.best_i

\* the canonical step columns, the keys of STEP_COL_SYNONYMS
StepKeys == {STEP_COL_SYNONYMS[k][1] : k \in 1..Len(STEP_COL_SYNONYMS)}

\* col_map of read_steps: for each canonical key the first column (1-based
\* here) whose header resolves to it, 0 when the key is not in col_map
StepColMap(header) ==
    [c \in StepKeys |->
        LET js == {j \in 1..Len(header) : canon_step_col(StrCell(header[j])) = c}
        IN  IF js = {} THEN 0 ELSE CHOOSE j \in js : \A k \in js : j <= k]

\* get(col) of read_steps for row r
StepGet(col_map, r, c) ==
    LET j == col_map[c]
    IN  IF j = 0 THEN <<>> ELSE IF j <= Len(r) THEN norm(r[j]) ELSE <<>>

\* a step whose order, when the cell gives none, is the position of its row
\* in the sheet, blank rows counted
v5_step_CountsRows(col_map, r, produced, rowIndex) ==
    LET order_raw == StepGet(col_map, r, <<"o", "r", "d", "e", "r">>)
        p == ParseInt(order_raw)
        order == IF order_raw # <<>> /\ p.ok THEN p.v ELSE rowIndex
        idCell == StepGet(col_map, r, <<"i", "d">>)
        titleCell == StepGet(col_map, r, <<"t", "i", "t", "l", "e">>)
    IN  [id |-> IF idCell # <<>> THEN idCell ELSE <<"S", "t", "e", "p">> \o IntToStr(order),
         order |-> order,
         title |-> IF titleCell # <<>> THEN titleCell ELSE <<"S", "t", "e", "p", " ">> \o IntToStr(order),
         command |-> StepGet(col_map, r, <<"c", "o", "m", "m", "a", "n", "d">>),
         reminder |-> StepGet(col_map, r, <<"r", "e", "m", "i", "n", "d", "e", "r">>),
         notes |-> StepGet(col_map, r, <<"n", "o", "t", "e", "s">>),
         done |-> boolish(StrCell(StepGet(col_map, r, <<"d", "o", "n", "e">>)), FALSE),
         runs |-> <<>>,
         row |-> rowIndex]

\* the step read_steps builds from a row that is not blank, `produced` being
\* len(out); `row` is the 0-based index of the row in the sheet, kept to
\* state where a record came from (it is not serialized)
v5_step(col_map, r, produced, rowIndex) ==
    LET order_raw == StepGet(col_map, r, <<"o", "r", "d", "e", "r">>)
        p == ParseInt(order_raw)
        order == IF order_raw # <<>> /\ p.ok THEN p.v ELSE produced + 1
        idCell == StepGet(col_map, r, <<"i", "d">>)
        titleCell == StepGet(col_map, r, <<"t", "i", "t", "l", "e">>)
    IN  [id |-> IF idCell # <<>> THEN idCell ELSE <<"S", "t", "e", "p">> \o IntToStr(order),
         order |-> order,
         title |-> IF titleCell # <<>> THEN titleCell ELSE <<"S", "t", "e", "p", " ">> \o IntToStr(order),
         command |-> StepGet(col_map, r, <<"c", "o", "m", "m", "a", "n", "d">>),
         reminder |-> StepGet(col_map, r, <<"r", "e", "m", "i", "n", "d", "e", "r">>),
         notes |-> StepGet(col_map, r, <<"n", "o", "t", "e", "s">>),
         done |-> boolish(StrCell(StepGet(col_map, r, <<"d", "o", "n", "e">>)), FALSE),
         runs |-> <<>>,
         row |-> rowIndex]

RECURSIVE v5_rows_NoReset(_, _, _, _, _)
\* a loop that never sets blank_streak back to 0
v5_rows_NoReset(rows, col_map, i, out, blank_streak) ==
    IF i >= Len(rows) THEN out
    ELSE LET r == rows[i + 1] IN
         IF \A j \in 1..Len(r) : norm(r[j]) = <<>>
         THEN IF blank_streak + 1 >= StepsBlankStreak THEN out
              ELSE v5_rows_NoReset(rows, col_map, i + 1, out, blank_streak + 1)
         ELSE v5_rows_NoReset(rows, col_map, i + 1,
                              Append(out, v5_step(col_map, r, Len(out), i)), blank_streak)

RECURSIVE v5_rows(_, _, _, _, _)
\* for r in rows[hdr_i + 1:], i being the 0-based index of r
v5_rows(rows, col_map, i, out, blank_streak) ==
    IF i >= Len(rows) THEN out
    ELSE LET r == rows[i + 1] IN
         IF \A j \in 1..Len(r) : norm(r[j]) = <<>>
         THEN IF blank_streak + 1 >= StepsBlankStreak THEN out
              ELSE v5_rows(rows, col_map, i + 1, out, blank_streak + 1)
         ELSE v5_rows(rows, col_map, i + 1,
                      Append(out, v5_step(col_map, r, Len(out), i)), 0)

\* read_steps(ws) on the rows of the sheet
read_steps(rows) ==
    IF rows = <<>> THEN <<>>
    ELSE LET hdr_i == find_steps_header_row(rows) IN
         IF hdr_i = -1 THEN <<>>
         ELSE LET header == [j \in 1..Len(rows[hdr_i + 1]) |-> norm(rows[hdr_i + 1][j])]
              IN  SortByOrder(v5_rows(rows, StepColMap(header), hdr_i + 1, <<>>, 0))

(***************************************************************************)
(* Python dicts, kept as the sequence of their <<key, value>> items in     *)
(* insertion order, the keys being different from each other               *)
(***************************************************************************)
DictKeys(d) == {d[k][1] : k \in 1..Len(d)}

\* d[key] of a key the dict holds
DictGet(d, key) == d[CHOOSE k \in 1..Len(d) : d[k][1] = key][2]

\* d[key] = value: a key already there keeps its place
DictSet(d, key, value) ==
    IF key \in DictKeys(d)
    THEN [k \in 1..Len(d) |-> IF d[k][1] = key THEN <<key, value>> ELSE d[k]]
    ELSE Append(d, <<key, value>>)

(***************************************************************************)
(* v5: canonical_header_key and build_sopinfo                              *)
(***************************************************************************)
\* HEADER_KEY_SYNONYMS, in the order of the dict: <<canonical key, synonyms>>
HEADER_KEY_SYNONYMS == <<
    <<<<"n", "a", "m", "e">>, {<<"n", "a", "m", "e">>, <<"s", "o", "p", " ", "n", "a", "m", "e">>, <<"s", "o", "p", "n", "a", "m", "e">>, <<"s", "o", "p", "_", "n", "m">>}>>,
    <<<<"i", "d">>, {<<"i", "d">>, <<"s", "o", "p", " ", "i", "d">>, <<"s", "o", "p", "i", "d">>, <<"s", "o", "p", "_", "i", "d">>}>>,
    <<<<"e", "n", "t", "i", "t", "y">>, {<<"e", "n", "t", "i", "t", "y">>, <<"s", "o", "p", " ", "e", "n", "t", "i", "t", "y">>, <<"s", "o", "p", "e", "n", "t", "i", "t", "y">>, <<"s", "o", "p", "_", "e", "n", "t", "i", "t", "y">>}>>,
    <<<<"r", "e", "p", "o">>, {<<"r", "e", "p", "o">>, <<"r", "e", "p", "o", " ", "p", "a", "t", "h">>, <<"m", "e", "t", "a", "r", "e", "p", "o">>, <<"m", "e", "t", "a", " ", "r", "e", "p", "o">>, <<"c", "o", "d", "e", "s", "p", "a", "c", "e", "s", " ", "r", "e", "p", "o">>}>>,
    <<<<"w", "e", "b", "R", "o", "o", "t">>, {<<"w", "e", "b", "r", "o", "o", "t">>, <<"w", "e", "b", " ", "r", "o", "o", "t">>, <<"p", "u", "b", "l", "i", "s", "h">>, <<"p", "u", "b", "l", "i", "s", "h", " ", "t", "a", "r", "g", "e", "t">>, <<"s", "t", "a", "g", "e", " ", "r", "e", "p", "o">>, <<"w", "e", "b", " ", "r", "e", "p", "o">>}>>,
    <<<<"r", "u", "n", "L", "a", "b", "e", "l">>, {<<"r", "u", "n", "l", "a", "b", "e", "l">>, <<"r", "u", "n", " ", "l", "a", "b", "e", "l">>}>>,
    <<<<"i", "m", "g", "F", "o", "l", "d", "e", "r">>, {<<"i", "m", "g", "f", "o", "l", "d", "e", "r">>, <<"i", "m", "g", " ", "f", "o", "l", "d", "e", "r">>, <<"s", "o", "p", "i", "m", "g", "f", "o", "l", "d", "e", "r">>, <<"i", "m", "a", "g", "e", " ", "f", "o", "l", "d", "e", "r">>}>>,
    <<<<"t", "e", "m", "p", "l", "a", "t", "e", "T", "a", "g">>, {<<"t", "e", "m", "p", "l", "a", "t", "e", "t", "a", "g">>, <<"t", "e", "m", "p", "l", "a", "t", "e", " ", "t", "a", "g">>, <<"t", "a", "g">>}>> >>

\* a resolver that lower-cases the label and does not trim it
canonical_header_key_NoTrim(k) == FirstCanon(HEADER_KEY_SYNONYMS, Lower(k))

\* canonical_header_key(k) of a str
canonical_header_key(k) == FirstCanon(HEADER_KEY_SYNONYMS, low(StrCell(k)))

\* `base` of build_sopinfo: the canonical keys and their defaults
SopInfoBase == <<
    <<<<"n", "a", "m", "e">>, <<>> >>,
    <<<<"i", "d">>, <<>> >>,
    <<<<"e", "n", "t", "i", "t", "y">>, <<>> >>,
    <<<<"r", "e", "p", "o">>, <<"/", "w", "o", "r", "k", "s", "p", "a", "c", "e", "s", "/", "S", "O", "P", "_", "B", "u", "i", "l", "d">>>>,
    <<<<"w", "e", "b", "R", "o", "o", "t">>, <<"/", "S", "O", "P", "_", "S", "t", "a", "g", "e">>>>,
    <<<<"r", "u", "n", "L", "a", "b", "e", "l">>, <<>> >>,
    <<<<"i", "m", "g", "F", "o", "l", "d", "e", "r">>, <<".", ".", "/", "o", "u", "t", "p", "u", "t", "s", "/", "i", "m", "a", "g", "e", "s", "/", "<", "S", "O", "P", "_", "I", "D", ">">>>>,
    <<<<"t", "e", "m", "p", "l", "a", "t", "e", "T", "a", "g">>, <<"v", "8", " ", "U+00E2", "U+20AC", "U+201C", " ", "i", "n", "j", "e", "c", "t", "e", "d">>>> >>

RECURSIVE NormalizeHeader(_, _)
\* the first loop of build_sopinfo: `normalized` after the items of header_data
NormalizeHeader(header_data, normalized) ==
    IF header_data = <<>> THEN normalized
    ELSE LET k == Head(header_data)[1]
             v == Head(header_data)[2]
             ck == canonical_header_key(k)
         IN  IF ck # NoKey
             THEN NormalizeHeader(Tail(header_data),
                                  DictSet(normalized, ck, norm(StrCell(v))))
             ELSE IF k \in DictKeys(SopInfoBase)
             THEN NormalizeHeader(Tail(header_data),
                                  DictSet(normalized, k, norm(StrCell(v))))
             ELSE NormalizeHeader(Tail(header_data), normalized)

\* a build_sopinfo that hands back the normalized input and not the defaults
\* it was to be merged into
build_sopinfo_ReturnsNormalized(header_data) == NormalizeHeader(header_data, <<>>)

\* build_sopinfo(header_data)
build_sopinfo(header_data) ==
    LET normalized == NormalizeHeader(header_data, <<>>)
    IN  [k \in 1..Len(SopInfoBase) |->
            LET key == SopInfoBase[k][1]
            IN  IF key \in DictKeys(normalized) /\ DictGet(normalized, key) # <<>>
                THEN <<key, DictGet(normalized, key)>>
                ELSE SopInfoBase[k]]

(***************************************************************************)
(* SpecSteps: one Steps sheet read by both step extractors                 *)
(***************************************************************************)
\* the most data rows of a sheet
MaxRows == 3

\* the header row of the sheet
StepsHeader == <<StrCell(<<"O", "r", "d", "e", "r">>), StrCell(<<"I", "D">>), StrCell(<<"T", "i", "t", "l", "e">>)>>

\* order cells: blank, a number, a text that is no number
OrderCells == {NoneCell, IntCell(1), StrCell(<<"x">>)}

\* id cells: blank, an id, the same id in another spelling (both sanitize
\* to "a"), an id that looks like a suffixed one
IdCells == {NoneCell, StrCell(<<"a">>), StrCell(<<"A", "-">>), StrCell(<<"a", "_", "2">>)}

BlankRow == <<NoneCell, NoneCell, NoneCell>>

\* the data rows: the blank row, and rows with a title
DataRows ==
    {BlankRow} \cup {<<o, i, StrCell(<<"t">>)>> : o \in OrderCells, i \in IdCells}

StepsInit ==
    /\ sheet \in {<<StepsHeader>> \o d : d \in UNION {[1..k -> DataRows] : k \in 0..MaxRows}}
    /\ v4_steps = <<>>
    /\ v4_done = FALSE
    /\ v5_steps = <<>>
    /\ v5_done = FALSE

\* load_steps_from_excel (v4f1) runs on the sheet
LoadStepsV4f1 ==
    /\ ~v4_done
    /\ v4_steps' = load_steps_from_excel(sheet)
    /\ v4_done' = TRUE
    /\ UNCHANGED <<sheet, v5_steps, v5_done>>
    /\ UNCHANGED <<slugVars, headerVars, injectVars, sheetVars, resolveVars, probeVars>>

\* read_steps (v5) runs on the sheet
ReadStepsV5 ==
    /\ ~v5_done
    /\ v5_steps' = read_steps(sheet)
    /\ v5_done' = TRUE
    /\ UNCHANGED <<sheet, v4_steps, v4_done>>
    /\ UNCHANGED <<slugVars, headerVars, injectVars, sheetVars, resolveVars, probeVars>>

StepsNext == LoadStepsV4f1 \/ ReadStepsV5

InitSteps == StepsInit /\ SlugIdle /\ HeaderIdle /\ InjectIdle /\ SheetIdle /\ ResolveIdle /\ ProbeIdle

SpecSteps == InitSteps /\ [][StepsNext]_vars

\* the steps of a list are sorted by order, and records of equal order are
\* in the order of the rows they were read from
SortedStable(steps) ==
    \A i, j \in 1..Len(steps) :
        i < j => /\ steps[i].order <= steps[j].order
                 /\ steps[i].order = steps[j].order => steps[i].row < steps[j].row

\* C1: the list a step extractor returns (read_steps of v5,
\* load_steps_from_excel of v4f1) is sorted non-decreasing by order, and
\* steps of equal order keep the relative order of their source rows.
C1_SortedStable ==
    /\ v4_done => SortedStable(v4_steps)
    /\ v5_done => SortedStable(v5_steps)

\* both extractors returned a list in which a later row comes first and two
\* rows tie on order
C1_Witness ==
    /\ v4_done /\ v5_done
    /\ \E i, j \in 1..Len(v4_steps) :
         i < j /\ v4_steps[i].row > v4_steps[j].row
    /\ \E i, j \in 1..Len(v4_steps) :
         i < j /\ v4_steps[i].order = v4_steps[j].order
    /\ \E i, j \in 1..Len(v5_steps) :
         i < j /\ v5_steps[i].row > v5_steps[j].row
    /\ \E i, j \in 1..Len(v5_steps) :
         i < j /\ v5_steps[i].order = v5_steps[j].order

NoTwoIdsEqual(steps) ==
    \A i, j \in 1..Len(steps) : i # j => steps[i].id # steps[j].id

\* C2: no two steps of the list load_steps_from_excel (v4f1) returns have
\* the same id, whatever the rows: equal raw ids, raw ids that sanitize to
\* the same token, blank ids with equal order, raw ids that look suffixed.
C2_UniqueIdsV4f1 == v4_done => NoTwoIdsEqual(v4_steps)

\* the rows 'a', 'a', 'a_2' were read: the third id had to be probed past
\* the suffixed id the second row was given
C2_Witness ==
    /\ v4_done
    /\ Len(sheet) = 4
    /\ \A k \in 2..4 : sheet[k][1] = IntCell(1)
    /\ <<sheet[2][2], sheet[3][2], sheet[4][2]>>
         = <<StrCell(<<"a">>), StrCell(<<"a">>), StrCell(<<"a", "_", "2">>)>>
    /\ <<v4_steps[1].id, v4_steps[2].id, v4_steps[3].id>>
         = <<<<"a">>, <<"a", "_", "2">>, <<"a", "_", "2", "_", "2">>>>

\* C3: no two step records of the list read_steps (v5) returns have the
\* same id, even when two rows carry the same id cell or a blank one.
C3_UniqueIdsV5 == v5_done => NoTwoIdsEqual(v5_steps)

(***************************************************************************)
(* SpecHeader: build_sopinfo on an arbitrary raw header map                *)
(***************************************************************************)
\* the most items of the raw header map
MaxHeaderItems == 2

\* raw keys: synonyms in several spellings, a canonical key as written in
\* `base`, a key that resolves to nothing
HeaderLabels == {<<"S", "O", "P", " ", "I", "D">>, <<" ", "i", "d", " ">>, <<"R", "u", "n", " ", "L", "a", "b", "e", "l">>, <<"w", "e", "b", "R", "o", "o", "t">>, <<"T", "a", "g">>, <<"b", "o", "g", "u", "s">>}

HeaderValues == {<<>>, <<"X", "-", "1", "0", "1">>, <<" ", "v", " ">>}

HeaderItems == {<<k, v>> : k \in HeaderLabels, v \in HeaderValues}

HeaderInit ==
    /\ header_in \in {d \in UNION {[1..n -> HeaderItems] : n \in 0..MaxHeaderItems} :
                            \A i, j \in 1..Len(d) : i # j => d[i][1] # d[j][1]}
    /\ sop_out = <<>>
    /\ hdr_done = FALSE

\* build_sopinfo runs on the header map
BuildSopInfo ==
    /\ ~hdr_done
    /\ sop_out' = build_sopinfo(header_in)
    /\ hdr_done' = TRUE
    /\ UNCHANGED header_in
    /\ UNCHANGED <<slugVars, stepVars, injectVars, sheetVars, resolveVars, probeVars>>

HeaderNext == BuildSopInfo

InitHeader == HeaderInit /\ SlugIdle /\ StepsIdle /\ InjectIdle /\ SheetIdle /\ ResolveIdle /\ ProbeIdle

SpecHeader == InitHeader /\ [][HeaderNext]_vars

\* the eight canonical keys
CanonicalHeaderKeys ==
    {<<"n", "a", "m", "e">>, <<"i", "d">>, <<"e", "n", "t", "i", "t", "y">>, <<"r", "e", "p", "o">>, <<"w", "e", "b", "R", "o", "o", "t">>, <<"r", "u", "n", "L", "a", "b", "e", "l">>,
     <<"i", "m", "g", "F", "o", "l", "d", "e", "r">>, <<"t", "e", "m", "p", "l", "a", "t", "e", "T", "a", "g">>}

\* the synonyms of a canonical key
SynonymsOf(c) ==
    HEADER_KEY_SYNONYMS[CHOOSE k \in 1..Len(HEADER_KEY_SYNONYMS) :
                            HEADER_KEY_SYNONYMS[k][1] = c][2]

\* the input holds a key that, trimmed and lower-cased, is a synonym of c
HoldsSynonymOf(d, c) ==
    \E k \in DictKeys(d) : Lower(StripChars(k, Whitespace)) \in SynonymsOf(c)

\* C5: the document build_sopinfo returns holds exactly the eight canonical
\* keys, each once, and every canonical key for which the input holds no
\* synonym key has its fixed default value.
C5_AllKeysDefaulted ==
    hdr_done =>
        /\ Len(sop_out) = 8
        /\ DictKeys(sop_out) = CanonicalHeaderKeys
        /\ \A c \in CanonicalHeaderKeys :
              ~HoldsSynonymOf(header_in, c)
                  => DictGet(sop_out, c) = DictGet(SopInfoBase, c)

\* a map with a synonym of id and a key that resolves to nothing was built:
\* id comes from the input, the other keys are defaults
C5_Witness ==
    /\ hdr_done
    /\ header_in = << <<<<"b", "o", "g", "u", "s">>, <<"X", "-", "1", "0", "1">>>>, <<<<"S", "O", "P", " ", "I", "D">>, <<"X", "-", "1", "0", "1">>>> >>
    /\ DictGet(sop_out, <<"i", "d">>) = <<"X", "-", "1", "0", "1">>
    /\ DictGet(sop_out, <<"r", "e", "p", "o">>) = <<"/", "w", "o", "r", "k", "s", "p", "a", "c", "e", "s", "/", "S", "O", "P", "_", "B", "u", "i", "l", "d">>
    /\ DictGet(sop_out, <<"r", "u", "n", "L", "a", "b", "e", "l">>) = <<>>

(***************************************************************************)
(* SpecSlug: the sanitizer applied to an arbitrary string, then applied    *)
(* again to its own result                                                 *)
(***************************************************************************)
MaxSlugLen == 4

SlugAlphabet == {"a", "B", "1", "_", "-", " "}

SlugInit ==
    /\ s_in \in StringsUpTo(SlugAlphabet, MaxSlugLen)
    /\ s_once = <<>>
    /\ s_twice = <<>>
    /\ slug_pc = "start"

SlugifyOnce ==
    /\ slug_pc = "start"
    /\ s_once' = slugify_step_id(s_in)
    /\ slug_pc' = "once"
    /\ UNCHANGED <<s_in, s_twice>>
    /\ UNCHANGED <<stepVars, headerVars, injectVars, sheetVars, resolveVars, probeVars>>

SlugifyAgain ==
    /\ slug_pc = "once"
    /\ s_twice' = slugify_step_id(s_once)
    /\ slug_pc' = "twice"
    /\ UNCHANGED <<s_in, s_once>>
    /\ UNCHANGED <<stepVars, headerVars, injectVars, sheetVars, resolveVars, probeVars>>

SlugNext == SlugifyOnce \/ SlugifyAgain

InitSlug == SlugInit /\ StepsIdle /\ HeaderIdle /\ InjectIdle /\ SheetIdle /\ ResolveIdle /\ ProbeIdle

SpecSlug == InitSlug /\ [][SlugNext]_vars

\* C4: slugify_step_id is idempotent: sanitizing the sanitized string gives
\* the sanitized string back, for every input string.
C4_SlugifyIdempotent == slug_pc = "twice" => s_twice = s_once

\* an input with a leading digit and punctuation went through both passes
C4_Witness ==
    /\ slug_pc = "twice"
    /\ s_in = <<"1", "-", "B", " ">>
    /\ s_once = <<"s", "t", "e", "p", "_", "1", "_", "b">>

(***************************************************************************)
(* Searching and replacing in text: the `in` operator, str.replace         *)
(***************************************************************************)
\* s[i - 1 : i - 1 + len(pat)] == pat, for a position i counted from 1
MatchAt(s, i, pat) ==
    /\ i >= 1
    /\ i + Len(pat) - 1 <= Len(s)
    /\ pat # <<>> => s[i] = pat[1]
    /\ SubSeq(s, i, i + Len(pat) - 1) = pat

\* pat in s
Contains(s, pat) == \E i \in 1..Len(s) : MatchAt(s, i, pat)

\* the smallest member of a set of positions that is not empty
Least(S) == CHOOSE x \in S : \A y \in S : x <= y

RECURSIVE ReplaceFrom(_, _, _, _)
\* s.replace(old, new) for the part of s from position i on: occurrences
\* are taken from the left and do not overlap; `new` is not searched again
ReplaceFrom(s, i, old, new) ==
    LET hits == {k \in i..Len(s) : MatchAt(s, k, old)}
    IN  IF hits = {} THEN SubSeq(s, i, Len(s))
        ELSE SubSeq(s, i, Least(hits) - 1) \o new
             \o ReplaceFrom(s, Least(hits) + Len(old), old, new)

\* s.replace(old, new), old not empty
Replace(s, old, new) == ReplaceFrom(s, 1, old, new)

\* d.get(key, default)
DictGetOr(d, key, default) == IF key \in DictKeys(d) THEN DictGet(d, key) ELSE default

\* d.setdefault(key, default)
DictSetDefault(d, key, default) ==
    IF key \in DictKeys(d) THEN d ELSE Append(d, <<key, default>>)

(***************************************************************************)
(* json.dumps(obj, indent=2): a step list is a list of dicts, a dict is    *)
(* the sequence of its <<key, value>> items, a value is a str, an int, a   *)
(* bool or an empty list                                                   *)
(***************************************************************************)
BoolCell(b) == [t |-> "bool", i |-> IF b THEN 1 ELSE 0, s |-> <<>>]

EmptyListCell == [t |-> "list", i |-> 0, s |-> <<>>]

\* chr(n) for n in 0..255
ChrTable == <<
    "U+0000", "U+0001", "U+0002", "U+0003", "U+0004", "U+0005", "U+0006", "U+0007",
    "U+0008", "\t", "\n", "U+000B", "U+000C", "\r", "U+000E", "U+000F",
    "U+0010", "U+0011", "U+0012", "U+0013", "U+0014", "U+0015", "U+0016", "U+0017",
    "U+0018", "U+0019", "U+001A", "U+001B", "U+001C", "U+001D", "U+001E", "U+001F",
    " ", "!", "\"", "#", "$", "%", "&", "'",
    "(", ")", "*", "+", ",", "-", ".", "/",
    "0", "1", "2", "3", "4", "5", "6", "7",
    "8", "9", ":", ";", "<", "=", ">", "?",
    "@", "A", "B", "C", "D", "E", "F", "G",
    "H", "I", "J", "K", "L", "M", "N", "O",
    "P", "Q", "R", "S", "T", "U", "V", "W",
    "X", "Y", "Z", "[", "\\", "]", "^", "_",
    "U+0060", "a", "b", "c", "d", "e", "f", "g",
    "h", "i", "j", "k", "l", "m", "n", "o",
    "p", "q", "r", "s", "t", "u", "v", "w",
    "x", "y", "z", "{", "|", "}", "~", "U+007F",
    "U+0080", "U+0081", "U+0082", "U+0083", "U+0084", "U+0085", "U+0086", "U+0087",
    "U+0088", "U+0089", "U+008A", "U+008B", "U+008C", "U+008D", "U+008E", "U+008F",
    "U+0090", "U+0091", "U+0092", "U+0093", "U+0094", "U+0095", "U+0096", "U+0097",
    "U+0098", "U+0099", "U+009A", "U+009B", "U+009C", "U+009D", "U+009E", "U+009F",
    "U+00A0", "U+00A1", "U+00A2", "U+00A3", "U+00A4", "U+00A5", "U+00A6", "U+00A7",
    "U+00A8", "U+00A9", "U+00AA", "U+00AB", "U+00AC", "U+00AD", "U+00AE", "U+00AF",
    "U+00B0", "U+00B1", "U+00B2", "U+00B3", "U+00B4", "U+00B5", "U+00B6", "U+00B7",
    "U+00B8", "U+00B9", "U+00BA", "U+00BB", "U+00BC", "U+00BD", "U+00BE", "U+00BF",
    "U+00C0", "U+00C1", "U+00C2", "U+00C3", "U+00C4", "U+00C5", "U+00C6", "U+00C7",
    "U+00C8", "U+00C9", "U+00CA", "U+00CB", "U+00CC", "U+00CD", "U+00CE", "U+00CF",
    "U+00D0", "U+00D1", "U+00D2", "U+00D3", "U+00D4", "U+00D5", "U+00D6", "U+00D7",
    "U+00D8", "U+00D9", "U+00DA", "U+00DB", "U+00DC", "U+00DD", "U+00DE", "U+00DF",
    "U+00E0", "U+00E1", "U+00E2", "U+00E3", "U+00E4", "U+00E5", "U+00E6", "U+00E7",
    "U+00E8", "U+00E9", "U+00EA", "U+00EB", "U+00EC", "U+00ED", "U+00EE", "U+00EF",
    "U+00F0", "U+00F1", "U+00F2", "U+00F3", "U+00F4", "U+00F5", "U+00F6", "U+00F7",
    "U+00F8", "U+00F9", "U+00FA", "U+00FB", "U+00FC", "U+00FD", "U+00FE", "U+00FF" >>

Chr(n) == ChrTable[n + 1]

\* the \uXXXX form of a character that json.dumps writes by its code
HexEscape(c) ==
    CASE c = "U+0000" -> <<"\\", "u", "0", "0", "0", "0">>
      [] c = "U+0001" -> <<"\\", "u", "0", "0", "0", "1">>
      [] c = "U+0002" -> <<"\\", "u", "0", "0", "0", "2">>
      [] c = "U+0003" -> <<"\\", "u", "0", "0", "0", "3">>
      [] c = "U+0004" -> <<"\\", "u", "0", "0", "0", "4">>
      [] c = "U+0005" -> <<"\\", "u", "0", "0", "0", "5">>
      [] c = "U+0006" -> <<"\\", "u", "0", "0", "0", "6">>
      [] c = "U+0007" -> <<"\\", "u", "0", "0", "0", "7">>
      [] c = "U+000B" -> <<"\\", "u", "0", "0", "0", "b">>
      [] c = "U+000E" -> <<"\\", "u", "0", "0", "0", "e">>
      [] c = "U+000F" -> <<"\\", "u", "0", "0", "0", "f">>
      [] c = "U+0010" -> <<"\\", "u", "0", "0", "1", "0">>
      [] c = "U+0011" -> <<"\\", "u", "0", "0", "1", "1">>
      [] c = "U+0012" -> <<"\\", "u", "0", "0", "1", "2">>
      [] c = "U+0013" -> <<"\\", "u", "0", "0", "1", "3">>
      [] c = "U+0014" -> <<"\\", "u", "0", "0", "1", "4">>
      [] c = "U+0015" -> <<"\\", "u", "0", "0", "1", "5">>
      [] c = "U+0016" -> <<"\\", "u", "0", "0", "1", "6">>
      [] c = "U+0017" -> <<"\\", "u", "0", "0", "1", "7">>
      [] c = "U+0018" -> <<"\\", "u", "0", "0", "1", "8">>
      [] c = "U+0019" -> <<"\\", "u", "0", "0", "1", "9">>
      [] c = "U+001A" -> <<"\\", "u", "0", "0", "1", "a">>
      [] c = "U+001B" -> <<"\\", "u", "0", "0", "1", "b">>
      [] c = "U+001C" -> <<"\\", "u", "0", "0", "1", "c">>
      [] c = "U+001D" -> <<"\\", "u", "0", "0", "1", "d">>
      [] c = "U+001E" -> <<"\\", "u", "0", "0", "1", "e">>
      [] c = "U+001F" -> <<"\\", "u", "0", "0", "1", "f">>
      [] c = "U+007F" -> <<"\\", "u", "0", "0", "7", "f">>
      [] c = "U+00E2" -> <<"\\", "u", "0", "0", "e", "2">>
      [] c = "U+20AC" -> <<"\\", "u", "2", "0", "a", "c">>
      [] c = "U+201C" -> <<"\\", "u", "2", "0", "1", "c">>

\* the characters below the space
ControlChars == {Chr(n) : n \in 0..31}

\* what py_encode_basestring (ensure_ascii false) and
\* py_encode_basestring_ascii (ensure_ascii true) write for one character
JsonEscapeChar(c, ensure_ascii) ==
    CASE c = "\"" -> <<"\\", "\"">>
      [] c = "\\" -> <<"\\", "\\">>
      [] c = "\n" -> <<"\\", "n">>
      [] c = "\r" -> <<"\\", "r">>
      [] c = "\t" -> <<"\\", "t">>
      [] c = "U+0008" -> <<"\\", "b">>
      [] c = "U+000C" -> <<"\\", "f">>
      [] c \in ControlChars -> HexEscape(c)
      [] c \in {"U+007F", "U+00E2", "U+20AC", "U+201C"} ->
            IF ensure_ascii THEN HexEscape(c) ELSE <<c>>
      [] OTHER -> <<c>>

RECURSIVE JsonEscape(_, _)
JsonEscape(s, ensure_ascii) ==
    IF s = <<>> THEN <<>>
    ELSE JsonEscapeChar(Head(s), ensure_ascii) \o JsonEscape(Tail(s), ensure_ascii)

\* a str as a JSON string
JsonString(s, ensure_ascii) == <<"\"">> \o JsonEscape(s, ensure_ascii) \o <<"\"">>

\* a value of a dict
JsonValue(v, ensure_ascii) ==
    CASE v.t = "str" -> JsonString(v.s, ensure_ascii)
      [] v.t = "int" -> IntToStr(v.i)
      [] v.t = "bool" -> IF v.i = 1 THEN <<"t", "r", "u", "e">> ELSE <<"f", "a", "l", "s", "e">>
      [] v.t = "list" -> <<"[", "]">>
      [] v.t = "none" -> <<"n", "u", "l", "l">>

\* `n` spaces
Spaces(n) == [k \in 1..n |-> " "]

\* a dict at a nesting depth: its items on lines of their own, two spaces
\* deeper than its braces; {} when it is empty
JsonObject(d, depth, ensure_ascii) ==
    IF d = <<>> THEN <<"{", "}">>
    ELSE LET line(k) == Spaces(2 * (depth + 1))
                        \o JsonString(d[k][1], ensure_ascii) \o <<":", " ">>
                        \o JsonValue(d[k][2], ensure_ascii)
         IN  <<"{", "\n">> \o Join([k \in 1..Len(d) |-> line(k)], <<",", "\n">>)
             \o <<"\n">> \o Spaces(2 * depth) \o <<"}">>

\* json.dumps(steps, indent=2, ensure_ascii=...) of a list of dicts
json_dumps_list(steps, ensure_ascii) ==
    IF steps = <<>> THEN <<"[", "]">>
    ELSE <<"[", "\n">>
         \o Join([k \in 1..Len(steps) |->
                     Spaces(2) \o JsonObject(steps[k], 1, ensure_ascii)], <<",", "\n">>)
         \o <<"\n", "]">>

\* json.dumps(d, indent=2, ensure_ascii=...) of a dict of str values
json_dumps_dict(d, ensure_ascii) ==
    JsonObject([k \in 1..Len(d) |-> <<d[k][1], StrCell(d[k][2])>>], 0, ensure_ascii)

(***************************************************************************)
(* The regular expressions of the injectors. A match is the record of its  *)
(* positions: the text matched is s[start..end], group 1 is                *)
(* s[start..g1end], group 2 is s[g1end+1..g2end], group 3 is               *)
(* s[g2end+1..end].                                                        *)
(***************************************************************************)
NoMatch == [found |-> FALSE, start |-> 0, g1end |-> 0, g2end |-> 0, end |-> 0]

RECURSIVE SkipWs(_, _)
\* where \s* stops when it starts at position i
SkipWs(s, i) ==
    IF i <= Len(s) /\ s[i] \in Whitespace THEN SkipWs(s, i + 1) ELSE i

\* \b in front of a word character at position i
BoundaryBefore(s, i) == i = 1 \/ s[i - 1] \notin WordChars

\* let\s+<name>\s*=\s* at position i, followed by the opening bracket: the
\* position of the bracket, 0 when the text does not match there
AssignPrefixAt(s, i, name, open) ==
    LET a == i + 3
        b == SkipWs(s, a)
        c == SkipWs(s, b + Len(name))
        d == SkipWs(s, c + 1)
    IN  IF /\ MatchAt(s, i, <<"l", "e", "t">>)
           /\ b > a
           /\ MatchAt(s, b, name)
           /\ c <= Len(s) /\ s[c] = "="
           /\ d <= Len(s) /\ s[d] = open
        THEN d ELSE 0

\* the closing brackets a lazy body can stop at: a bracket after the
\* opening one that \s*; follows
Closers(s, from, close) ==
    {j \in from..Len(s) :
        /\ s[j] = close
        /\ SkipWs(s, j + 1) <= Len(s)
        /\ s[SkipWs(s, j + 1)] = ";"}

\* re.search of  let\s+<name>\s*=\s*  <open> (anything, lazy) <close> \s*;
\* with \b in front when word_boundary: the leftmost match, its body ending
\* at the first closing bracket that \s*; follows
SearchAssign(s, name, open, close, word_boundary) ==
    LET starts == {i \in 1..Len(s) :
                      /\ AssignPrefixAt(s, i, name, open) # 0
                      /\ word_boundary => BoundaryBefore(s, i)
                      /\ Closers(s, AssignPrefixAt(s, i, name, open) + 1, close) # {}}
    IN  IF starts = {} THEN NoMatch
        ELSE LET i == Least(starts)
                 d == AssignPrefixAt(s, i, name, open)
                 j == Least(Closers(s, d + 1, close))
             IN  [found |-> TRUE, start |-> i, g1end |-> d - 1, g2end |-> j,
                  end |-> SkipWs(s, j + 1)]

\* the pattern of _inject_steps (v4f_v1a):
\* (let\s+steps\s*=\s*)(\[[\s\S]*?\])(\s*;)
InjectStepsPattern(s) == SearchAssign(s, <<"s", "t", "e", "p", "s">>, "[", "]", FALSE)

\* SOPINFO_RE (v5): (?P<prefix>\blet\s+sopInfo\s*=\s*)\{.*?\}\s*;  re.DOTALL
SOPINFO_RE(s) == SearchAssign(s, <<"s", "o", "p", "I", "n", "f", "o">>, "{", "}", TRUE)

\* STEPS_RE (v5): (?P<prefix>\blet\s+steps\s*=\s*)\[\s*.*?\s*\]\s*;  re.DOTALL
STEPS_RE(s) == SearchAssign(s, <<"s", "t", "e", "p", "s">>, "[", "]", TRUE)

\* pat at position i, letter case ignored (re.I)
MatchAtCI(s, i, pat) ==
    /\ i >= 1
    /\ i + Len(pat) - 1 <= Len(s)
    /\ pat # <<>> => LowerChar(s[i]) = LowerChar(pat[1])
    /\ Lower(SubSeq(s, i, i + Len(pat) - 1)) = Lower(pat)

\* (<title>)(.*?)(</title>) with re.I | re.S
TitlePattern(s) ==
    LET closes(i) == {j \in (i + 7)..Len(s) : MatchAtCI(s, j, <<"<", "/", "t", "i", "t", "l", "e", ">">>)}
        starts == {i \in 1..Len(s) : MatchAtCI(s, i, <<"<", "t", "i", "t", "l", "e", ">">>) /\ closes(i) # {}}
    IN  IF starts = {} THEN NoMatch
        ELSE LET i == Least(starts)
                 j == Least(closes(i))
             IN  [found |-> TRUE, start |-> i, g1end |-> i + 6, g2end |-> j - 1,
                  end |-> j + 7]

\* the literal  id="headerTitle"
HeaderTitleAttr == <<"i", "d", "=", "\"", "h", "e", "a", "d", "e", "r", "T", "i", "t", "l", "e", "\"">>

\* (<div[^>]*\bid="headerTitle"[^>]*>)(.*?)(</div>) with re.I | re.S: the
\* tag ends at the first > after <div, the attribute lies inside the tag
\* behind a character that is not a word character
HeaderTitlePattern(s) ==
    LET gts(i) == {q \in (i + 4)..Len(s) : s[q] = ">"}
        tagEnd(i) == Least(gts(i))
        attrs(i) == {k \in (i + 4)..(tagEnd(i) - Len(HeaderTitleAttr)) :
                        /\ MatchAtCI(s, k, HeaderTitleAttr)
                        /\ s[k - 1] \notin WordChars}
        closes(i) == {j \in (tagEnd(i) + 1)..Len(s) : MatchAtCI(s, j, <<"<", "/", "d", "i", "v", ">">>)}
        starts == {i \in 1..Len(s) :
                      /\ MatchAtCI(s, i, <<"<", "d", "i", "v">>)
                      /\ gts(i) # {}
                      /\ attrs(i) # {}
                      /\ closes(i) # {}}
    IN  IF starts = {} THEN NoMatch
        ELSE LET i == Least(starts)
                 j == Least(closes(i))
             IN  [found |-> TRUE, start |-> i, g1end |-> tagEnd(i), g2end |-> j - 1,
                  end |-> j + 5]

\* the three groups of a match
MatchGroups(s, m) ==
    << SubSeq(s, m.start, m.g1end),
       SubSeq(s, m.g1end + 1, m.g2end),
       SubSeq(s, m.g2end + 1, m.end) >>

(***************************************************************************)
(* A replacement string of re.sub: the parser of the re module reads it    *)
(* before the search (a replacement it rejects raises re.error whether the *)
(* pattern matches or not), and its backslash escapes are expanded         *)
(***************************************************************************)
OctDigits == {"0", "1", "2", "3", "4", "5", "6", "7"}

AsciiLetters == Lowers \cup Uppers

RECURSIVE OctVal(_, _)
\* int(digits, 8), acc being the value of the digits read
OctVal(digits, acc) ==
    IF digits = <<>> THEN acc ELSE OctVal(Tail(digits), 8 * acc + DigitVal(Head(digits)))

\* str.isidentifier() over the characters of the model
IsIdentifier(name) ==
    /\ name # <<>>
    /\ name[1] \in AsciiLetters \cup {"_"}
    /\ \A k \in 1..Len(name) : name[k] \in WordChars

TemplateError == [ok |-> FALSE, text |-> <<>>]

RECURSIVE ExpandTemplate(_, _)
\* the replacement string t expanded for a match with the groups g (group 0
\* is the whole match, the groups of the patterns here being adjacent):
\* [ok |-> FALSE] when the parser rejects t. The text in front of the first
\* backslash is literal; what follows the backslash decides the rest.
ExpandTemplate(t, g) ==
    LET slashes == {k \in 1..Len(t) : t[k] = "\\"} IN
    IF slashes = {} THEN [ok |-> TRUE, text |-> t]
    ELSE
    LET b == Least(slashes)
        literal == SubSeq(t, 1, b - 1)
        \* the escape takes t[b..used]
        Then(out, used) ==
            LET r == ExpandTemplate(SubSeq(t, used + 1, Len(t)), g)
            IN  [ok |-> r.ok, text |-> IF r.ok THEN literal \o out \o r.text ELSE <<>>]
        Group(n, used) ==
            IF n = 0 THEN Then(Join(g, <<>>), used)
            ELSE IF n <= Len(g) THEN Then(g[n], used)
            ELSE TemplateError             \* invalid group reference
        IsOct(k) == k <= Len(t) /\ t[k] \in OctDigits
        IsDigit(k) == k <= Len(t) /\ t[k] \in Digits
    IN  IF b = Len(t) THEN TemplateError   \* bad escape (end of pattern)
        ELSE
        LET c == t[b + 1] IN
        CASE c = "g" ->
                IF ~(Len(t) >= b + 2 /\ t[b + 2] = "<") THEN TemplateError
                ELSE LET ends == {k \in (b + 3)..Len(t) : t[k] = ">"} IN
                     IF ends = {} THEN TemplateError
                     ELSE LET e == Least(ends)
                              name == SubSeq(t, b + 3, e - 1)
                              p == ParseInt(name)
                          IN  IF name = <<>> \/ IsIdentifier(name) THEN TemplateError
                              ELSE IF p.ok /\ p.v >= 0 THEN Group(p.v, e)
                              ELSE TemplateError
          [] c = "0" ->
                IF IsOct(b + 2) /\ IsOct(b + 3)
                THEN Then(<<Chr(OctVal(SubSeq(t, b + 2, b + 3), 0) % 256)>>, b + 3)
                ELSE IF IsOct(b + 2) THEN Then(<<Chr(DigitVal(t[b + 2]))>>, b + 2)
                ELSE Then(<<Chr(0)>>, b + 1)
          [] c \in Digits \ {"0"} ->
                IF IsDigit(b + 2)
                THEN IF c \in OctDigits /\ IsOct(b + 2) /\ IsOct(b + 3)
                     THEN IF OctVal(SubSeq(t, b + 1, b + 3), 0) > 255 THEN TemplateError
                          ELSE Then(<<Chr(OctVal(SubSeq(t, b + 1, b + 3), 0))>>, b + 3)
                     ELSE Group(10 * DigitVal(c) + DigitVal(t[b + 2]), b + 2)
                ELSE Group(DigitVal(c), b + 1)
          [] c = "a" -> Then(<<Chr(7)>>, b + 1)
          [] c = "b" -> Then(<<Chr(8)>>, b + 1)
          [] c = "f" -> Then(<<Chr(12)>>, b + 1)
          [] c = "n" -> Then(<<"\n">>, b + 1)
          [] c = "r" -> Then(<<"\r">>, b + 1)
          [] c = "t" -> Then(<<"\t">>, b + 1)
          [] c = "v" -> Then(<<Chr(11)>>, b + 1)
          [] c = "\\" -> Then(<<"\\">>, b + 1)
          [] c \in AsciiLetters \ {"g", "a", "b", "f", "n", "r", "t", "v"} ->
                TemplateError              \* bad escape
          [] OTHER -> Then(<<"\\", c>>, b + 1)

\* re.sub(pattern, repl, s, count=1), m being the first match of the
\* pattern in s: the replacement string is parsed whether the pattern
\* matches or not; [ok |-> FALSE] when re.error is raised
ReSubFirst(s, m, repl) ==
    LET r == ExpandTemplate(repl, IF m.found THEN MatchGroups(s, m)
                                  ELSE << <<>>, <<>>, <<>> >>)
    IN  IF ~r.ok THEN TemplateError
        ELSE IF ~m.found THEN [ok |-> TRUE, text |-> s]
        ELSE [ok |-> TRUE,
              text |-> SubSeq(s, 1, m.start - 1) \o r.text
                       \o SubSeq(s, m.end + 1, Len(s))]

(***************************************************************************)
(* The template injectors. An injector gives [ok |-> TRUE, text |-> the    *)
(* text to write], or [ok |-> FALSE] when it raises.                       *)
(***************************************************************************)
\* the placeholder of the step list
STEPS_JSON == <<"{", "{", "S", "T", "E", "P", "S", "_", "J", "S", "O", "N", "}", "}">>

\* "{{" + key + "}}"
Placeholder(key) == <<"{", "{">> \o key \o <<"}", "}">>

Ok(text) == [ok |-> TRUE, text |-> text]

Raised == [ok |-> FALSE, text |-> <<>>]

RECURSIVE ReplacePlaceholders(_, _)
\* for key, value in meta_placeholders.items():
\*     text = text.replace("{{" + key + "}}", value)
ReplacePlaceholders(text, meta_placeholders) ==
    IF meta_placeholders = <<>> THEN text
    ELSE ReplacePlaceholders(
             Replace(text, Placeholder(Head(meta_placeholders)[1]),
                     Head(meta_placeholders)[2]),
             Tail(meta_placeholders))

\* the step_obj literal of load_steps_from_excel (checklist_builder.py,
\* v4f1, v4f_v1a): the same keys in the same order in the three builders
step_obj(id, order_val, title_val, command_val, reminder_val) ==
    << <<<<"i", "d">>, StrCell(id)>>,
       <<<<"o", "r", "d", "e", "r">>, IntCell(order_val)>>,
       <<<<"t", "i", "t", "l", "e">>, StrCell(title_val)>>,
       <<<<"c", "o", "m", "m", "a", "n", "d">>, StrCell(command_val)>>,
       <<<<"r", "e", "m", "i", "n", "d", "e", "r">>, StrCell(reminder_val)>>,
       <<<<"n", "o", "t", "e", "s">>, StrCell(<<>>)>>,
       <<<<"r", "u", "n", "s">>, EmptyListCell>> >>

\* the `step` literal of read_steps (v5)
step_v5(id, order, title, command, reminder, notes, done) ==
    << <<<<"i", "d">>, StrCell(id)>>,
       <<<<"o", "r", "d", "e", "r">>, IntCell(order)>>,
       <<<<"t", "i", "t", "l", "e">>, StrCell(title)>>,
       <<<<"c", "o", "m", "m", "a", "n", "d">>, StrCell(command)>>,
       <<<<"r", "e", "m", "i", "n", "d", "e", "r">>, StrCell(reminder)>>,
       <<<<"n", "o", "t", "e", "s">>, StrCell(notes)>>,
       <<<<"d", "o", "n", "e">>, BoolCell(done)>>,
       <<<<"r", "u", "n", "s">>, EmptyListCell>> >>

\* the step_dict literal of load_steps (Prev) for a row that has a
\* StepOrder, a StepID and a Title and blank cells elsewhere
step_dict(step_order, step_id, title) ==
    << <<<<"i", "d">>, StrCell(<<"s", "t", "e", "p">> \o step_order)>>,
       <<<<"o", "r", "d", "e", "r">>, StrCell(step_order)>>,
       <<<<"s", "t", "e", "p", "_", "i", "d">>, StrCell(step_id)>>,
       <<<<"t", "i", "t", "l", "e">>, StrCell(title)>>,
       <<<<"i", "n", "p", "u", "t", "s">>, StrCell(<<>>)>>,
       <<<<"p", "r", "o", "g", "r", "a", "m">>, StrCell(<<>>)>>,
       <<<<"c", "o", "m", "m", "a", "n", "d">>, StrCell(<<>>)>>,
       <<<<"v", "a", "r", "i", "a", "n", "t", "s">>, StrCell(<<>>)>>,
       <<<<"e", "x", "p", "e", "c", "t", "e", "d", "_", "f", "i", "l", "e">>, StrCell(<<>>)>>,
       <<<<"e", "x", "p", "e", "c", "t", "e", "d", "_", "f", "o", "l", "d", "e", "r">>, StrCell(<<>>)>>,
       <<<<"h", "i", "n", "t", "s">>, StrCell(<<>>)>>,
       <<<<"p", "h", "a", "s", "e">>, StrCell(<<>>)>>,
       <<<<"r", "e", "m", "i", "n", "d", "e", "r">>, StrCell(<<>>)>>,
       <<<<"n", "o", "t", "e", "s">>, StrCell(<<>>)>>,
       <<<<"r", "u", "n", "s">>, EmptyListCell>> >>

\* build_default_meta of checklist_builder.py
build_default_meta_cb(stem, excel_meta) ==
    LET app_title == DictGetOr(excel_meta, <<"A", "P", "P", "_", "T", "I", "T", "L", "E">>, <<"S", "O", "P", " ", "B", "u", "i", "l", "d", " ", "C", "h", "e", "c", "k", "l", "i", "s", "t", " ", "v", "4", "c">>)
    IN  << <<<<"A", "P", "P", "_", "T", "I", "T", "L", "E">>, app_title>>,
           <<<<"A", "P", "P", "_", "T", "I", "T", "L", "E", "_", "V", "I", "S", "I", "B", "L", "E">>, DictGetOr(excel_meta, <<"A", "P", "P", "_", "T", "I", "T", "L", "E", "_", "V", "I", "S", "I", "B", "L", "E">>, app_title)>>,
           <<<<"M", "E", "T", "A", "_", "R", "E", "P", "O">>, DictGetOr(excel_meta, <<"M", "E", "T", "A", "_", "R", "E", "P", "O">>, <<"K", "y", "a", "_", "B", "a", "a", "t", "_", "H", "a", "i", " ", "/", " ", "C", "h", "k", "_", "L", "s", "t">>)>>,
           <<<<"M", "E", "T", "A", "_", "E", "N", "T", "I", "T", "Y">>, DictGetOr(excel_meta, <<"M", "E", "T", "A", "_", "E", "N", "T", "I", "T", "Y">>, <<>>)>>,
           <<<<"M", "E", "T", "A", "_", "S", "O", "P", "_", "D", "E", "F", "A", "U", "L", "T">>, DictGetOr(excel_meta, <<"M", "E", "T", "A", "_", "S", "O", "P", "_", "D", "E", "F", "A", "U", "L", "T">>, <<>>)>>,
           <<<<"M", "E", "T", "A", "_", "I", "M", "G", "_", "F", "O", "L", "D", "E", "R", "_", "D", "E", "F">>,
             DictGetOr(excel_meta, <<"M", "E", "T", "A", "_", "I", "M", "G", "_", "F", "O", "L", "D", "E", "R", "_", "D", "E", "F">>, <<"S", "O", "P", "/", "i", "m", "a", "g", "e", "s", "/", "S", "E", "/", "D", "i", "s", "t", "r", "o", "/", "Q", "u", "o", "2", "O", "r", "d">>)>>,
           <<<<"R", "U", "N", "_", "L", "A", "B", "E", "L", "_", "D", "E", "F", "A", "U", "L", "T">>, DictGetOr(excel_meta, <<"R", "U", "N", "_", "L", "A", "B", "E", "L", "_", "D", "E", "F", "A", "U", "L", "T">>, stem)>> >>

\* build_default_meta of v4f1
build_default_meta_v4f1(stem, excel_meta) ==
    LET app_title == DictGetOr(excel_meta, <<"A", "P", "P", "_", "T", "I", "T", "L", "E">>, <<"S", "O", "P", " ", "B", "u", "i", "l", "d", " ", "C", "h", "e", "c", "k", "l", "i", "s", "t", " ", "v", "5">>)
    IN  << <<<<"A", "P", "P", "_", "T", "I", "T", "L", "E">>, app_title>>,
           <<<<"A", "P", "P", "_", "T", "I", "T", "L", "E", "_", "V", "I", "S", "I", "B", "L", "E">>, DictGetOr(excel_meta, <<"A", "P", "P", "_", "T", "I", "T", "L", "E", "_", "V", "I", "S", "I", "B", "L", "E">>, app_title)>>,
           <<<<"M", "E", "T", "A", "_", "R", "E", "P", "O">>, DictGetOr(excel_meta, <<"M", "E", "T", "A", "_", "R", "E", "P", "O">>, <<"/", "w", "o", "r", "k", "s", "p", "a", "c", "e", "s", "/", "E", "d", "x", "B", "u", "i", "l", "d">>)>>,
           <<<<"M", "E", "T", "A", "_", "E", "N", "T", "I", "T", "Y">>, DictGetOr(excel_meta, <<"M", "E", "T", "A", "_", "E", "N", "T", "I", "T", "Y">>, <<>>)>>,
           <<<<"M", "E", "T", "A", "_", "S", "O", "P", "_", "D", "E", "F", "A", "U", "L", "T">>, DictGetOr(excel_meta, <<"M", "E", "T", "A", "_", "S", "O", "P", "_", "D", "E", "F", "A", "U", "L", "T">>, <<>>)>>,
           <<<<"M", "E", "T", "A", "_", "I", "M", "G", "_", "F", "O", "L", "D", "E", "R", "_", "D", "E", "F">>,
             DictGetOr(excel_meta, <<"M", "E", "T", "A", "_", "I", "M", "G", "_", "F", "O", "L", "D", "E", "R", "_", "D", "E", "F">>, <<"S", "O", "P", "/", "i", "m", "a", "g", "e", "s", "/", "S", "E", "/", "D", "i", "s", "t", "r", "o", "/", "Q", "u", "o", "2", "O", "r", "d">>)>>,
           <<<<"M", "E", "T", "A", "_", "W", "E", "B", "R", "O", "O", "T">>, DictGetOr(excel_meta, <<"M", "E", "T", "A", "_", "W", "E", "B", "R", "O", "O", "T">>, <<>>)>>,
           <<<<"R", "U", "N", "_", "L", "A", "B", "E", "L", "_", "D", "E", "F", "A", "U", "L", "T">>, DictGetOr(excel_meta, <<"R", "U", "N", "_", "L", "A", "B", "E", "L", "_", "D", "E", "F", "A", "U", "L", "T">>, stem)>> >>

\* build_default_meta of v4f_v1a
build_default_meta_v4f_v1a(stem, excel_meta) ==
    LET app_title == DictGetOr(excel_meta, <<"A", "P", "P", "_", "T", "I", "T", "L", "E">>, <<"C", "h", "e", "c", "k", "l", "i", "s", "t">>)
    IN  << <<<<"A", "P", "P", "_", "T", "I", "T", "L", "E">>, app_title>>,
           <<<<"A", "P", "P", "_", "T", "I", "T", "L", "E", "_", "V", "I", "S", "I", "B", "L", "E">>, DictGetOr(excel_meta, <<"A", "P", "P", "_", "T", "I", "T", "L", "E", "_", "V", "I", "S", "I", "B", "L", "E">>, app_title)>>,
           <<<<"M", "E", "T", "A", "_", "R", "E", "P", "O">>, DictGetOr(excel_meta, <<"M", "E", "T", "A", "_", "R", "E", "P", "O">>, <<"/", "w", "o", "r", "k", "s", "p", "a", "c", "e", "s", "/", "E", "d", "x", "B", "u", "i", "l", "d">>)>>,
           <<<<"M", "E", "T", "A", "_", "E", "N", "T", "I", "T", "Y">>, DictGetOr(excel_meta, <<"M", "E", "T", "A", "_", "E", "N", "T", "I", "T", "Y">>, <<>>)>>,
           <<<<"M", "E", "T", "A", "_", "S", "O", "P", "_", "D", "E", "F", "A", "U", "L", "T">>, DictGetOr(excel_meta, <<"M", "E", "T", "A", "_", "S", "O", "P", "_", "D", "E", "F", "A", "U", "L", "T">>, <<>>)>>,
           <<<<"M", "E", "T", "A", "_", "I", "M", "G", "_", "F", "O", "L", "D", "E", "R", "_", "D", "E", "F">>, DictGetOr(excel_meta, <<"M", "E", "T", "A", "_", "I", "M", "G", "_", "F", "O", "L", "D", "E", "R", "_", "D", "E", "F">>, <<>>)>>,
           <<<<"M", "E", "T", "A", "_", "W", "E", "B", "R", "O", "O", "T">>, DictGetOr(excel_meta, <<"M", "E", "T", "A", "_", "W", "E", "B", "R", "O", "O", "T">>, <<>>)>>,
           <<<<"R", "U", "N", "_", "L", "A", "B", "E", "L", "_", "D", "E", "F", "A", "U", "L", "T">>, DictGetOr(excel_meta, <<"R", "U", "N", "_", "L", "A", "B", "E", "L", "_", "D", "E", "F", "A", "U", "L", "T">>, stem)>> >>

\* REQUIRED_HEADER_FIELDS (Prev)
REQUIRED_HEADER_FIELDS ==
    << <<"A", "P", "P", "_", "T", "I", "T", "L", "E">>, <<"A", "P", "P", "_", "T", "I", "T", "L", "E", "_", "V", "I", "S", "I", "B", "L", "E">>, <<"M", "E", "T", "A", "_", "R", "E", "P", "O">>, <<"M", "E", "T", "A", "_", "E", "N", "T", "I", "T", "Y">>,
       <<"M", "E", "T", "A", "_", "S", "O", "P", "_", "D", "E", "F", "A", "U", "L", "T">>, <<"M", "E", "T", "A", "_", "I", "M", "G", "_", "F", "O", "L", "D", "E", "R", "_", "D", "E", "F">>, <<"R", "U", "N", "_", "L", "A", "B", "E", "L", "_", "D", "E", "F", "A", "U", "L", "T">> >>

RECURSIVE SetDefaults(_, _)
\* for key in keys: header.setdefault(key, "")
SetDefaults(header, keys) ==
    IF keys = <<>> THEN header
    ELSE SetDefaults(DictSetDefault(header, Head(keys), <<>>), Tail(keys))

RECURSIVE HeaderRows(_, _)
\* the loop of load_header over the rows <<Field cell, Value cell>>
HeaderRows(rows, header) ==
    IF rows = <<>> THEN header
    ELSE LET field == StripChars(IF isna(Head(rows)[1]) THEN <<"n", "a", "n">>
                                 ELSE CellStr(Head(rows)[1]), Whitespace)
             value == IF isna(Head(rows)[2]) THEN <<>> ELSE CellStr(Head(rows)[2])
         IN  HeaderRows(Tail(rows),
                        IF field # <<>> THEN DictSet(header, field, value) ELSE header)

\* load_header(sheet) (Prev)
load_header(rows) == SetDefaults(HeaderRows(rows, <<>>), REQUIRED_HEADER_FIELDS)

\* apply_template of checklist_builder.py, up to the write
apply_template_cb(text, steps, meta_placeholders) ==
    LET steps_json == json_dumps_list(steps, FALSE)
    IN  Ok(ReplacePlaceholders(Replace(text, STEPS_JSON, steps_json),
                               meta_placeholders))

\* apply_template of v4f1, up to the write (str(value) of a str is the str)
apply_template_v4f1(text, steps, meta_placeholders) ==
    LET steps_json == json_dumps_list(steps, FALSE)
    IN  Ok(ReplacePlaceholders(Replace(text, STEPS_JSON, steps_json),
                               meta_placeholders))

\* an _inject_steps that hands the template back when it finds nothing to
\* replace
inject_steps_Silent(html, steps_json) ==
    IF Contains(html, STEPS_JSON) THEN Ok(Replace(html, STEPS_JSON, steps_json))
    ELSE IF InjectStepsPattern(html).found
    THEN ReSubFirst(html, InjectStepsPattern(html),
                    <<"\\", "1">> \o steps_json \o <<"\\", "3">>)
    ELSE Ok(html)

\* _inject_steps(html, steps_json) (v4f_v1a)
inject_steps(html, steps_json) ==
    IF Contains(html, STEPS_JSON) THEN Ok(Replace(html, STEPS_JSON, steps_json))
    ELSE IF InjectStepsPattern(html).found
    THEN ReSubFirst(html, InjectStepsPattern(html),
                    <<"\\", "1">> \o steps_json \o <<"\\", "3">>)
    ELSE Raised

\* _replace_or_patch_title(html, title_text) (v4f_v1a)
replace_or_patch_title(html, title_text) ==
    IF Contains(html, <<"{", "{", "A", "P", "P", "_", "T", "I", "T", "L", "E", "}", "}">>)
    THEN Ok(Replace(html, <<"{", "{", "A", "P", "P", "_", "T", "I", "T", "L", "E", "}", "}">>, title_text))
    ELSE ReSubFirst(html, TitlePattern(html), <<"\\", "1">> \o title_text \o <<"\\", "3">>)

\* _replace_or_patch_header_title(html, visible_text) (v4f_v1a)
replace_or_patch_header_title(html, visible_text) ==
    IF Contains(html, <<"{", "{", "A", "P", "P", "_", "T", "I", "T", "L", "E", "_", "V", "I", "S", "I", "B", "L", "E", "}", "}">>)
    THEN Ok(Replace(html, <<"{", "{", "A", "P", "P", "_", "T", "I", "T", "L", "E", "_", "V", "I", "S", "I", "B", "L", "E", "}", "}">>, visible_text))
    ELSE ReSubFirst(html, HeaderTitlePattern(html),
                    <<"\\", "1">> \o visible_text \o <<"\\", "3">>)

\* apply_template of v4f_v1a, up to the write
apply_template_v4f_v1a(html, steps, meta_placeholders) ==
    LET steps_json == json_dumps_list(steps, FALSE)
        app_title == DictGetOr(meta_placeholders, <<"A", "P", "P", "_", "T", "I", "T", "L", "E">>, <<"C", "h", "e", "c", "k", "l", "i", "s", "t">>)
        visible == DictGetOr(meta_placeholders, <<"A", "P", "P", "_", "T", "I", "T", "L", "E", "_", "V", "I", "S", "I", "B", "L", "E">>, app_title)
        h1 == inject_steps(html, steps_json)
        h2 == replace_or_patch_title(h1.text, app_title)
        h3 == replace_or_patch_header_title(h2.text, visible)
    IN  IF ~h1.ok THEN Raised
        ELSE IF ~h2.ok THEN Raised
        ELSE IF ~h3.ok THEN Raised
        ELSE Ok(ReplacePlaceholders(h3.text, meta_placeholders))

\* json_for_js(obj) (v5) of the step list and of the header document
json_for_js_steps(steps) == json_dumps_list(steps, FALSE)

json_for_js_sopinfo(sop_info) == json_dumps_dict(sop_info, FALSE)

\* RE.sub(lambda m: f"{m.group('prefix')}{js};", s, count=1), m being the
\* first match of RE in s
SubPrefixed(s, m, js) ==
    IF ~m.found THEN s
    ELSE SubSeq(s, 1, m.start - 1)
         \o SubSeq(s, m.start, m.g1end) \o js \o <<";">>
         \o SubSeq(s, m.end + 1, Len(s))

\* inject(template_html, sop_info, steps) (v5)
inject(template_html, sop_info, steps) ==
    IF ~SOPINFO_RE(template_html).found THEN Raised
    ELSE IF ~STEPS_RE(template_html).found THEN Raised
    ELSE LET sop_js == json_for_js_sopinfo(sop_info)
             steps_js == json_for_js_steps(steps)
             with_sop == SubPrefixed(template_html, SOPINFO_RE(template_html), sop_js)
         IN  Ok(SubPrefixed(with_sop, STEPS_RE(with_sop), steps_js))

\* embed_header_placeholders(html, header) (Prev)
embed_header_placeholders(html, header) ==
    ReplacePlaceholders(html,
        [k \in 1..Len(REQUIRED_HEADER_FIELDS) |->
            <<REQUIRED_HEADER_FIELDS[k],
              DictGetOr(header, REQUIRED_HEADER_FIELDS[k], <<>>)>>])

\* embed_steps_json(html, steps) (Prev)
embed_steps_json(html, steps) ==
    LET steps_json == json_dumps_list(steps, TRUE)
        steps_json_safe == Replace(steps_json, <<"<", "/", "s", "c", "r", "i", "p", "t", ">">>, <<"<", "\\", "/", "s", "c", "r", "i", "p", "t", ">">>)
    IN  Replace(html, STEPS_JSON, steps_json_safe)

(***************************************************************************)
(* One build: a builder reads the template, injects the documents and      *)
(* writes the output file                                                  *)
(***************************************************************************)
MaxSegments == 2

Builders == {"cb", "v4f1", "v4f_v1a", "v5", "prev"}

\* a template that has every declared placeholder
FullMarkerTemplate ==
    <<"<", "t", "i", "t", "l", "e", ">", "{", "{", "A", "P", "P", "_", "T", "I", "T", "L", "E", "}", "}", "<", "/", "t", "i", "t", "l", "e", ">", "<", "h", "1", ">", "{", "{", "A", "P", "P", "_", "T", "I", "T", "L", "E", "_", "V", "I", "S", "I", "B", "L", "E", "}", "}", "<", "/", "h", "1", ">">>
    \o <<"{", "{", "M", "E", "T", "A", "_", "R", "E", "P", "O", "}", "}", "|", "{", "{", "M", "E", "T", "A", "_", "E", "N", "T", "I", "T", "Y", "}", "}", "|", "{", "{", "M", "E", "T", "A", "_", "S", "O", "P", "_", "D", "E", "F", "A", "U", "L", "T", "}", "}", "|", "{", "{", "M", "E", "T", "A", "_", "I", "M", "G", "_", "F", "O", "L", "D", "E", "R", "_", "D", "E", "F", "}", "}", "|">>
    \o <<"{", "{", "M", "E", "T", "A", "_", "W", "E", "B", "R", "O", "O", "T", "}", "}", "|", "{", "{", "R", "U", "N", "_", "L", "A", "B", "E", "L", "_", "D", "E", "F", "A", "U", "L", "T", "}", "}", "\n", "l", "e", "t", " ", "s", "t", "e", "p", "s", " ", "=", " ", "{", "{", "S", "T", "E", "P", "S", "_", "J", "S", "O", "N", "}", "}", ";", "\n">>

\* the pieces the templates are made of
TemplateSegments ==
    { FullMarkerTemplate,
      <<"{", "{", "S", "T", "E", "P", "S", "_", "J", "S", "O", "N", "}", "}">>,
      <<"l", "e", "t", " ", "s", "t", "e", "p", "s", " ", "=", " ", "[", "\n", " ", " ", "1", "\n", "]", " ", ";">>,
      <<"l", "e", "t", " ", "s", "o", "p", "I", "n", "f", "o", " ", "=", " ", "{", "}", ";">>,
      <<"<", "t", "i", "t", "l", "e", ">", "T", "<", "/", "t", "i", "t", "l", "e", ">">>,
      <<"<", "d", "i", "v", " ", "i", "d", "=", "\"", "h", "e", "a", "d", "e", "r", "T", "i", "t", "l", "e", "\"", ">", "H", "<", "/", "d", "i", "v", ">">>,
      <<"<", "p", ">", "x", "<", "/", "p", ">", "\n">> }

Templates == {Join(parts, <<>>) : parts \in StringsUpTo(TemplateSegments, MaxSegments)}

\* the texts of a step title and of a header value: stripped strings
StepTitles == {<<"t">>, <<"{", "{", "A", "P", "P", "_", "T", "I", "T", "L", "E", "}", "}">>, <<"a", "\n", "b", "\\", "c">>, <<"s", "a", "y", " ", "\"", "h", "i", "\"">>, <<"x", "U+0001">>}

HeaderTexts == {<<"T">>, <<"{", "{", "M", "E", "T", "A", "_", "R", "E", "P", "O", "}", "}">>, <<"l", "e", "t", " ", "s", "t", "e", "p", "s", " ", "=", " ", "[", "]", ";">>, <<"C", ":", "\\", "d", "o", "c", "s">>}

\* the documents of a build, <<step titles, header text>>: the step list
\* varies under a plain header, the header under a plain one-step list
DocInputs ==
    {<<titles, <<"T">>>> : titles \in {<<>>} \cup {<<t>> : t \in StepTitles}}
    \cup {<< <<<<"t">>>>, v>> : v \in HeaderTexts}

\* spec_path.stem
Stem == <<"S", "p", "e", "c", "1">>

\* the step a builder's loader makes of a row with order 1, id a and a title
StepOf(b, title) ==
    CASE b \in {"cb", "v4f1", "v4f_v1a"} -> step_obj(<<"a">>, 1, title, <<>>, <<>>)
      [] b = "v5" -> step_v5(<<"a">>, 1, title, <<>>, <<>>, <<>>, FALSE)
      [] b = "prev" -> step_dict(<<"1">>, <<"a">>, title)

\* the header values a builder makes of a Header sheet with one entry
MetaOf(b, v) ==
    CASE b = "cb" -> build_default_meta_cb(Stem, << <<<<"A", "P", "P", "_", "T", "I", "T", "L", "E">>, v>> >>)
      [] b = "v4f1" -> build_default_meta_v4f1(Stem, << <<<<"A", "P", "P", "_", "T", "I", "T", "L", "E">>, v>> >>)
      [] b = "v4f_v1a" -> build_default_meta_v4f_v1a(Stem, << <<<<"A", "P", "P", "_", "T", "I", "T", "L", "E">>, v>> >>)
      [] b = "v5" -> build_sopinfo(<< <<<<"n", "a", "m", "e">>, v>> >>)
      [] b = "prev" -> load_header(<< <<StrCell(<<"A", "P", "P", "_", "T", "I", "T", "L", "E">>), StrCell(v)>> >>)

InjectInit ==
    /\ builder \in Builders
    /\ tpl_text \in Templates
    /\ \E d \in DocInputs :
          /\ doc_steps = [k \in 1..Len(d[1]) |-> StepOf(builder, d[1][k])]
          /\ doc_meta = MetaOf(builder, d[2])
    /\ injected = [ok |-> FALSE, text |-> <<>>]
    /\ out_file = [written |-> FALSE, text |-> <<>>]
    /\ run = "start"

\* the end of a build: out_path.write_text(text) when nothing was raised
Finish(stepsResult, result) ==
    /\ injected' = stepsResult
    /\ run' = IF result.ok THEN "done" ELSE "error"
    /\ out_file' = IF result.ok THEN [written |-> TRUE, text |-> result.text]
                   ELSE out_file
    /\ UNCHANGED <<builder, tpl_text, doc_steps, doc_meta>>
    /\ UNCHANGED <<slugVars, stepVars, headerVars, sheetVars, resolveVars, probeVars>>

\* checklist_builder.py: apply_template
ApplyTemplateCb ==
    /\ builder = "cb"
    /\ run = "start"
    /\ Finish(Ok(Replace(tpl_text, STEPS_JSON, json_dumps_list(doc_steps, FALSE))),
              apply_template_cb(tpl_text, doc_steps, doc_meta))

\* v4f1: apply_template
ApplyTemplateV4f1 ==
    /\ builder = "v4f1"
    /\ run = "start"
    /\ Finish(Ok(Replace(tpl_text, STEPS_JSON, json_dumps_list(doc_steps, FALSE))),
              apply_template_v4f1(tpl_text, doc_steps, doc_meta))

\* v4f_v1a: apply_template
ApplyTemplateV4fV1a ==
    /\ builder = "v4f_v1a"
    /\ run = "start"
    /\ Finish(inject_steps(tpl_text, json_dumps_list(doc_steps, FALSE)),
              apply_template_v4f_v1a(tpl_text, doc_steps, doc_meta))

\* v5: main from the template read to the write
MainV5 ==
    /\ builder = "v5"
    /\ run = "start"
    /\ Finish(inject(tpl_text, doc_meta, doc_steps),
              inject(tpl_text, doc_meta, doc_steps))

\* Prev: main from the template read to the write
MainPrev ==
    /\ builder = "prev"
    /\ run = "start"
    /\ LET html_text == embed_steps_json(embed_header_placeholders(tpl_text, doc_meta),
                                         doc_steps)
       IN  Finish(Ok(html_text), Ok(html_text))

InjectNext ==
    \/ ApplyTemplateCb
    \/ ApplyTemplateV4f1
    \/ ApplyTemplateV4fV1a
    \/ MainV5
    \/ MainPrev

InitInject == InjectInit /\ SlugIdle /\ StepsIdle /\ HeaderIdle /\ SheetIdle /\ ResolveIdle /\ ProbeIdle

SpecInject == InitInject /\ [][InjectNext]_vars

\* the placeholders a builder declares, each with its serialized value
DeclaredMarkers ==
    << <<STEPS_JSON, json_dumps_list(doc_steps, FALSE)>> >>
    \o [k \in 1..Len(doc_meta) |-> <<Placeholder(doc_meta[k][1]), doc_meta[k][2]>>]

RECURSIVE MarkersFilled(_, _, _)
\* the text s from position i on, every occurrence of a marker replaced by
\* the marker's value and no other character changed
MarkersFilled(s, i, values) ==
    LET at(p) == {k \in 1..Len(values) : MatchAt(s, p, values[k][1])}
        hits == {p \in i..Len(s) : at(p) # {}}
    IN  IF hits = {} THEN SubSeq(s, i, Len(s))
        ELSE LET p == Least(hits)
                 k == Least(at(p))
             IN  SubSeq(s, i, p - 1) \o values[k][2]
                 \o MarkersFilled(s, p + Len(values[k][1]), values)

\* C6: marker-based injection (apply_template of checklist_builder.py and of
\* v4f1): when the template has the declared markers, the output is the
\* template with each marker occurrence replaced by that marker's own
\* serialized value and no other character changed, whatever the step text
\* and the header values are.
C6_OnlyMarkersReplaced ==
    ( /\ builder \in {"cb", "v4f1"}
      /\ run = "done"
      /\ \A k \in 1..Len(DeclaredMarkers) : Contains(tpl_text, DeclaredMarkers[k][1]) )
    => out_file.text = MarkersFilled(tpl_text, 1, DeclaredMarkers)

\* C7: _inject_steps (v4f_v1a) on a template without {{STEPS_JSON}} that
\* has a `let steps = [...];` assignment gives the template with the list
\* literal of the first such assignment replaced by the serialized step list,
\* character for character, and nothing else changed.
C7_StructuralReplaceExact ==
    ( /\ builder = "v4f_v1a"
      /\ run # "start"
      /\ ~Contains(tpl_text, STEPS_JSON)
      /\ InjectStepsPattern(tpl_text).found )
    => /\ injected.ok
       /\ injected.text =
             SubSeq(tpl_text, 1, InjectStepsPattern(tpl_text).g1end)
             \o json_dumps_list(doc_steps, FALSE)
             \o SubSeq(tpl_text, InjectStepsPattern(tpl_text).g2end + 1, Len(tpl_text))

\* the text s with the two matches, which do not overlap, replaced
ReplaceBoth(s, m1, r1, m2, r2) ==
    IF m1.end < m2.start
    THEN SubSeq(s, 1, m1.start - 1) \o r1 \o SubSeq(s, m1.end + 1, m2.start - 1)
         \o r2 \o SubSeq(s, m2.end + 1, Len(s))
    ELSE SubSeq(s, 1, m2.start - 1) \o r2 \o SubSeq(s, m2.end + 1, m1.start - 1)
         \o r1 \o SubSeq(s, m1.end + 1, Len(s))

\* C8: inject (v5) on a template that has both assignments puts the step
\* list at the first `let steps` assignment of the original template and
\* nowhere else, and changes no character outside the two assignments,
\* whatever sop_info and steps are.
C8_StepsAtFirstAssignment ==
    LET m1 == SOPINFO_RE(tpl_text)
        m2 == STEPS_RE(tpl_text)
    IN  ( /\ builder = "v5"
          /\ run = "done"
          /\ m1.found /\ m2.found
          /\ (m1.end < m2.start \/ m2.end < m1.start) )
        => out_file.text =
              ReplaceBoth(tpl_text,
                  m1, SubSeq(tpl_text, m1.start, m1.g1end)
                      \o json_dumps_dict(doc_meta, FALSE) \o <<";">>,
                  m2, SubSeq(tpl_text, m2.start, m2.g1end)
                      \o json_dumps_list(doc_steps, FALSE) \o <<";">>)

\* the template has neither the steps marker nor a `let steps = [...]`
\* assignment the builder recognizes
NoStepsTarget ==
    /\ ~Contains(tpl_text, STEPS_JSON)
    /\ builder = "v4f_v1a" => ~InjectStepsPattern(tpl_text).found
    /\ builder = "v5" => ~STEPS_RE(tpl_text).found

\* C9: when the template has neither a steps marker nor a recognizable
\* `let steps = [...]` assignment, the build of v4f_v1a and the build of v5
\* end with an error and the output file is not written.
C9_NoTargetNoOutput ==
    (builder \in {"v4f_v1a", "v5"} /\ run # "start" /\ NoStepsTarget)
    => (run = "error" /\ ~out_file.written)

\* a v4f_v1a build stopped by _inject_steps on a template that has a title
\* and a paragraph but no place for the steps
C9_Witness ==
    /\ builder = "v4f_v1a"
    /\ tpl_text = <<"<", "t", "i", "t", "l", "e", ">", "T", "<", "/", "t", "i", "t", "l", "e", ">", "<", "p", ">", "x", "<", "/", "p", ">", "\n">>
    /\ doc_steps # <<>>
    /\ run = "error"
    /\ ~injected.ok
    /\ ~out_file.written

\* C10: the marker-only builders (checklist_builder.py, v4f1, Prev) fail and
\* write no output file when the template does not contain {{STEPS_JSON}}.
C10_MarkerOnlyFailsLoudly ==
    ( /\ builder \in {"cb", "v4f1", "prev"}
      /\ run # "start"
      /\ ~Contains(tpl_text, STEPS_JSON) )
    => (run = "error" /\ ~out_file.written)

(***************************************************************************)
(* SpecIds: load_steps_from_excel (v4f1) on sheets whose rows differ in    *)
(* their id cell                                                           *)
(***************************************************************************)
\* the most data rows of a sheet of SpecIds
MaxIdRows == 4

IdSheetHeader == <<StrCell(<<"S", "t", "e", "p", "I", "D">>), StrCell(<<"S", "t", "e", "p", "O", "r", "d", "e", "r">>)>>

\* rows <<id cell, order cell>>: an id, the same id in another spelling, an
\* id that looks like a suffixed one, a blank id, a digits-only id, a
\* punctuation-only id next to a negative order, an id with a leading digit
IdRows ==
    { <<StrCell(<<"S", "t", "e", "p", " ", "A">>), IntCell(1)>>,
      <<StrCell(<<" ", "s", "t", "e", "p", "_", "a">>), IntCell(1)>>,
      <<StrCell(<<"S", "t", "e", "p", " ", "A", " ", "2">>), IntCell(1)>>,
      <<NoneCell, IntCell(7)>>,
      <<StrCell(<<"7">>), IntCell(2)>>,
      <<StrCell(<<"-", "!", "-">>), IntCell(-3)>>,
      <<StrCell(<<"2", "b">>), NoneCell>> }

IdsInit ==
    /\ sheet \in {<<IdSheetHeader>> \o d : d \in UNION {[1..k -> IdRows] : k \in 0..MaxIdRows}}
    /\ v4_steps = <<>>
    /\ v4_done = FALSE
    /\ v5_steps = <<>>
    /\ v5_done = FALSE

InitIds == IdsInit /\ SlugIdle /\ HeaderIdle /\ InjectIdle /\ SheetIdle /\ ResolveIdle /\ ProbeIdle

SpecIds == InitIds /\ [][LoadStepsV4f1]_vars

\* the ids issued to the rows read before the row of step s
IssuedBefore(steps, s) == {t.id : t \in {steps[k] : k \in {j \in 1..Len(steps) : steps[j].row < s.row}}}

\* the smallest k >= 2 such that candidate_k is not in `issued`
SmallestFreeSuffix(candidate, issued) ==
    CHOOSE k \in 2..(Cardinality(issued) + 2) :
        /\ Suffixed(candidate, k) \notin issued
        /\ \A m \in 2..(k - 1) : Suffixed(candidate, m) \in issued

\* C11 (as stated): when several rows sanitize to the same candidate id c,
\* the first such row keeps c and each later one receives c_k for the
\* smallest k >= 2 such that c_k has not yet been issued.
C11_FirstKeepsCandidate ==
    v4_done =>
        \A i \in 1..Len(v4_steps) :
            LET s == v4_steps[i]
                same == {j \in 1..Len(v4_steps) : v4_steps[j].candidate = s.candidate}
                first == \A j \in same : v4_steps[j].row >= s.row
            IN  Cardinality(same) >= 2 =>
                    IF first THEN s.id = s.candidate
                    ELSE s.id = Suffixed(s.candidate,
                                         SmallestFreeSuffix(s.candidate,
                                                            IssuedBefore(v4_steps, s)))

\* C11 (amended): a row keeps its candidate id c when c has not yet been
\* issued to an earlier row; otherwise it receives c_k for the smallest
\* k >= 2 such that c_k has not yet been issued. Two rows with id cell
\* 'Step A' yield 'step_a' and 'step_a_2' in row order.
C11_KeepsUnlessIssued ==
    v4_done =>
        /\ \A i \in 1..Len(v4_steps) :
              LET s == v4_steps[i]
                  issued == IssuedBefore(v4_steps, s)
              IN  IF s.candidate \notin issued THEN s.id = s.candidate
                  ELSE s.id = Suffixed(s.candidate, SmallestFreeSuffix(s.candidate, issued))
        /\ ( /\ Len(sheet) = 3
             /\ sheet[2][1] = StrCell(<<"S", "t", "e", "p", " ", "A">>)
             /\ sheet[3][1] = StrCell(<<"S", "t", "e", "p", " ", "A">>) )
           => \E i, j \in 1..Len(v4_steps) :
                 /\ v4_steps[i].row = 0 /\ v4_steps[i].id = <<"s", "t", "e", "p", "_", "a">>
                 /\ v4_steps[j].row = 1 /\ v4_steps[j].id = <<"s", "t", "e", "p", "_", "a", "_", "2">>

\* two rows 'Step A' were read and came out as step_a and step_a_2
C11_Witness ==
    /\ v4_done
    /\ Len(sheet) = 3
    /\ sheet[2][1] = StrCell(<<"S", "t", "e", "p", " ", "A">>)
    /\ sheet[3][1] = StrCell(<<"S", "t", "e", "p", " ", "A">>)
    /\ Len(v4_steps) = 2
    /\ v4_steps[1].id = <<"s", "t", "e", "p", "_", "a">>
    /\ v4_steps[2].id = <<"s", "t", "e", "p", "_", "a", "_", "2">>

\* C13: every step id load_steps_from_excel (v4f1) produces is non-empty and
\* does not start with a digit, whatever the id cell (blank, digits only,
\* punctuation only, leading digit) and the order value are.
C13_IdNonEmptyNoLeadingDigit ==
    v4_done =>
        \A i \in 1..Len(v4_steps) :
            /\ v4_steps[i].id # <<>>
            /\ v4_steps[i].id[1] \notin Digits

\* a blank id, a digits-only id, a punctuation-only id and an id with a
\* leading digit were read
C13_Witness ==
    /\ v4_done
    /\ sheet = <<IdSheetHeader,
                 <<NoneCell, IntCell(7)>>,
                 <<StrCell(<<"7">>), IntCell(2)>>,
                 <<StrCell(<<"-", "!", "-">>), IntCell(-3)>>,
                 <<StrCell(<<"2", "b">>), NoneCell>> >>
    /\ {v4_steps[i].id : i \in 1..Len(v4_steps)}
         = {<<"s", "t", "e", "p", "_", "7">>, <<"s", "t", "e", "p", "_", "7", "_", "2">>, <<"s", "t", "e", "p", "_", "-", "3">>, <<"s", "t", "e", "p", "_", "2", "b">>}


(***************************************************************************)
(* v5: the two readers of the Header sheet and their merge in main         *)
(***************************************************************************)
\* the names of row 1 that move the key column, and the value column
KeyColumnNames == {<<"k", "e", "y">>, <<"f", "i", "e", "l", "d">>, <<"h", "e", "a", "d", "e", "r", "_", "k", "e", "y">>, <<"n", "a", "m", "e">>}

ValueColumnNames == {<<"v", "a", "l", "u", "e">>, <<"v", "a", "l">>, <<"h", "e", "a", "d", "e", "r", "_", "v", "a", "l", "u", "e">>}

\* for i, h in enumerate(r1): if low(h) in names: idx = i; the last such
\* column (0-based), `default` when no column has one of the names
DetectColumn(r1, names, default) ==
    LET js == {j \in 1..Len(r1) : low(r1[j]) \in names}
    IN  IF js = {} THEN default ELSE (CHOOSE j \in js : \A k \in js : k <= j) - 1

\* norm(r[idx]) if idx < len(r) else ""
CellAt(r, idx) == IF idx < Len(r) THEN norm(r[idx + 1]) ELSE <<>>

\* the number of consecutive rows with a blank key that ends the reading
HeaderBlankStreak == 5

RECURSIVE KeyValueRows(_, _, _, _, _, _)
\* for r in rows[1:], i being the 0-based index of r
KeyValueRows(rows, i, idx_key, idx_val, out, blank_streak) ==
    IF i >= Len(rows) THEN out
    ELSE LET key == CellAt(rows[i + 1], idx_key)
             val == CellAt(rows[i + 1], idx_val)
         IN  IF key = <<>>
             THEN IF blank_streak + 1 >= HeaderBlankStreak THEN out
                  ELSE KeyValueRows(rows, i + 1, idx_key, idx_val, out, blank_streak + 1)
             ELSE KeyValueRows(rows, i + 1, idx_key, idx_val,
                               DictSet(out, key, val), 0)

\* read_header_key_value(ws) on the rows of the sheet
read_header_key_value(rows) ==
    IF rows = <<>> THEN <<>>
    ELSE KeyValueRows(rows, 1,
                      DetectColumn(rows[1], KeyColumnNames, 0),
                      DetectColumn(rows[1], ValueColumnNames, 1),
                      <<>>, 0)

\* the window of read_header_row_values
HeaderScanRows == 15

\* the number of cells of a row that name a known header field
FieldHits(row) ==
    Cardinality({j \in 1..Len(row) : canonical_header_key(norm(row[j])) # NoKey})

RECURSIVE ScanFieldRows(_, _, _, _, _)
\* the scan of read_header_row_values over rows i .. n-1 (0-based)
ScanFieldRows(rows, i, n, best_i, best_hits) ==
    IF i >= n THEN [best_i |-> best_i, best_hits |-> best_hits]
    ELSE LET hits == FieldHits(rows[i + 1])
         IN  IF hits > best_hits THEN ScanFieldRows(rows, i + 1, n, i, hits)
             ELSE ScanFieldRows(rows, i + 1, n, best_i, best_hits)

\* a row of field names taken whatever its number of hits
FieldRow_AnyHits(rows) ==
    IF Len(rows) < 2 THEN -1
    ELSE LET n == IF Len(rows) - 1 < HeaderScanRows THEN Len(rows) - 1
                  ELSE HeaderScanRows
         IN  ScanFieldRows(rows, 0, n, -1, 0).best_i

\* the row read_header_row_values takes as the row of field names (0-based),
\* -1 when it returns {} for want of one
FieldRow(rows) ==
    IF Len(rows) < 2 THEN -1
    ELSE LET n == IF Len(rows) - 1 < HeaderScanRows THEN Len(rows) - 1
                  ELSE HeaderScanRows
             b == ScanFieldRows(rows, 0, n, -1, 0)
         IN  IF b.best_i = -1 \/ b.best_hits < MinHeaderHits THEN -1 ELSE b.best_i

RECURSIVE FieldValues(_, _, _, _)
\* for j, f in enumerate(field_row): out[canon] = norm(value_row[j])
FieldValues(field_row, value_row, j, out) ==
    IF j >= Len(field_row) THEN out
    ELSE LET canon == canonical_header_key(norm(field_row[j + 1]))
         IN  IF canon # NoKey /\ j < Len(value_row) /\ norm(value_row[j + 1]) # <<>>
             THEN FieldValues(field_row, value_row, j + 1,
                              DictSet(out, canon, norm(value_row[j + 1])))
             ELSE FieldValues(field_row, value_row, j + 1, out)

\* read_header_row_values(ws) on the rows of the sheet
read_header_row_values(rows) ==
    LET i == FieldRow(rows)
    IN  IF i = -1 THEN <<>>
        ELSE FieldValues(rows[i + 1], rows[i + 2], 0, <<>>)

RECURSIVE DictUpdate(_, _)
\* d.update(e)
DictUpdate(d, e) ==
    IF e = <<>> THEN d
    ELSE DictUpdate(DictSet(d, Head(e)[1], Head(e)[2]), Tail(e))

\* a merge that drops what the paired-columns reader found
merge_header_RowValuesOnly(kvMap, rvMap) == rvMap

\* header_data of main: {} updated with kv, then with rv
merge_header(kvMap, rvMap) == DictUpdate(DictUpdate(<<>>, kvMap), rvMap)

(***************************************************************************)
(* SpecHeaderSheet: one Header sheet read as main of v5 reads it           *)
(***************************************************************************)
\* the most rows of a sheet after its leading blank rows
MaxSheetRows == 4

\* the rows a Header sheet is made of, four cells wide: the [Field, Value]
\* title row, paired rows, a row of three fields, a row of values, a row of
\* three synonyms of one field, a row of four fields
HeaderSheetRows ==
    { <<StrCell(<<"F", "i", "e", "l", "d">>), StrCell(<<"V", "a", "l", "u", "e">>), NoneCell, NoneCell>>,
      <<StrCell(<<"S", "O", "P", " ", "I", "D">>), StrCell(<<"X", "-", "1", "0", "1">>), NoneCell, NoneCell>>,
      <<StrCell(<<"R", "u", "n", " ", "L", "a", "b", "e", "l">>), StrCell(<<"B", "a", "t", "c", "h", "7">>), NoneCell, NoneCell>>,
      <<StrCell(<<" ", "R", "e", "p", "o">>), NoneCell, NoneCell, NoneCell>>,
      <<StrCell(<<"i", "d">>), StrCell(<<"N", "a", "m", "e">>), StrCell(<<"E", "n", "t", "i", "t", "y">>), NoneCell>>,
      <<StrCell(<<"R", "-", "9">>), IntCell(7), StrCell(<<" ", "E", "n", " ">>), StrCell(<<"R", "p">>)>>,
      <<StrCell(<<"i", "d">>), StrCell(<<"S", "O", "P", " ", "I", "D">>), StrCell(<<"s", "o", "p", "i", "d">>), NoneCell>>,
      <<StrCell(<<"I", "D">>), StrCell(<<"N", "a", "m", "e">>), StrCell(<<"E", "n", "t", "i", "t", "y">>), StrCell(<<"R", "e", "p", "o">>)>> }

\* the blank rows that put the next row of a sheet at the end of the window
\* and the one after it behind the window
LeadingBlankRows == HeaderScanRows - 1

BlankRows(n) == [k \in 1..n |-> <<NoneCell, NoneCell, NoneCell, NoneCell>>]

\* the sheets of at most n rows from row 1 on, or of fewer rows at the end of
\* the window
HeaderSheetsUpTo(n) ==
    {d : d \in UNION {[1..k -> HeaderSheetRows] : k \in 0..n}}
    \cup {BlankRows(LeadingBlankRows) \o d :
             d \in UNION {[1..k -> HeaderSheetRows] : k \in 1..(n - 1)}}

HeaderSheets == HeaderSheetsUpTo(MaxSheetRows)

HeaderSheetInit ==
    /\ header_sheet \in HeaderSheets
    /\ kv = <<>>
    /\ rv = <<>>
    /\ rv_best_i = -1
    /\ steps_hdr_i = -1
    /\ scan_done = FALSE

\* main of v5 reads the Header sheet both ways, merges and builds the document
MainHeaderV5 ==
    /\ ~hdr_done
    /\ kv' = read_header_key_value(header_sheet)
    /\ rv' = read_header_row_values(header_sheet)
    /\ rv_best_i' = FieldRow(header_sheet)
    /\ header_in' = merge_header(kv', rv')
    /\ sop_out' = build_sopinfo(header_in')
    /\ hdr_done' = TRUE
    /\ UNCHANGED <<header_sheet, steps_hdr_i, scan_done>>
    /\ UNCHANGED <<slugVars, stepVars, injectVars, resolveVars, probeVars>>

InitHeaderSheet == HeaderSheetInit /\ SlugIdle /\ StepsIdle /\ HeaderIdle /\ InjectIdle /\ ResolveIdle /\ ProbeIdle

SpecHeaderSheet == InitHeaderSheet /\ [][MainHeaderV5]_vars

\* the sheet is in the paired-columns layout of the claim: row 1 is
\* [Field, Value], every later row holds a label that is a synonym of a
\* canonical key in its first cell and nothing after the second, and no two
\* rows resolve to the same canonical key
PairedSheet(rows) ==
    /\ Len(rows) >= 1
    /\ <<norm(rows[1][1]), norm(rows[1][2])>> = <<<<"F", "i", "e", "l", "d">>, <<"V", "a", "l", "u", "e">>>>
    /\ \A i \in 1..Len(rows) : \A j \in 3..Len(rows[i]) : rows[i][j] = NoneCell
    /\ \A i \in 2..Len(rows) : canonical_header_key(norm(rows[i][1])) # NoKey
    /\ \A i, j \in 2..Len(rows) :
          i # j => canonical_header_key(norm(rows[i][1]))
                     # canonical_header_key(norm(rows[j][1]))

\* C12: for a Header sheet in the paired-columns layout, the document main
\* of v5 builds holds, for every row (k, v) with k a synonym of the canonical
\* key c and v not empty, the (trimmed) value v under c, and the default
\* under every other canonical key.
C12_PairedColumnsDocument ==
    (hdr_done /\ PairedSheet(header_sheet)) =>
        \A c \in CanonicalHeaderKeys :
            LET rowsOfC == {i \in 2..Len(header_sheet) :
                               /\ canonical_header_key(norm(header_sheet[i][1])) = c
                               /\ norm(header_sheet[i][2]) # <<>>}
            IN  IF rowsOfC = {}
                THEN DictGet(sop_out, c) = DictGet(SopInfoBase, c)
                ELSE \A i \in rowsOfC : DictGet(sop_out, c) = norm(header_sheet[i][2])

\* the sheet [Field, Value], (SOP ID, X-101), (Run Label, Batch7) was read:
\* id and runLabel come from the sheet, the other keys are defaults
C12_Witness ==
    /\ hdr_done
    /\ header_sheet =
          << <<StrCell(<<"F", "i", "e", "l", "d">>), StrCell(<<"V", "a", "l", "u", "e">>), NoneCell, NoneCell>>,
             <<StrCell(<<"S", "O", "P", " ", "I", "D">>), StrCell(<<"X", "-", "1", "0", "1">>), NoneCell, NoneCell>>,
             <<StrCell(<<"R", "u", "n", " ", "L", "a", "b", "e", "l">>), StrCell(<<"B", "a", "t", "c", "h", "7">>), NoneCell, NoneCell>> >>
    /\ DictGet(sop_out, <<"i", "d">>) = <<"X", "-", "1", "0", "1">>
    /\ DictGet(sop_out, <<"r", "u", "n", "L", "a", "b", "e", "l">>) = <<"B", "a", "t", "c", "h", "7">>
    /\ \A c \in CanonicalHeaderKeys \ {<<"i", "d">>, <<"r", "u", "n", "L", "a", "b", "e", "l">>} :
          DictGet(sop_out, c) = DictGet(SopInfoBase, c)

\* the paired-columns map supplies a non-empty value for the canonical key c:
\* it holds a label that resolves to c, with a value that is not blank
KvSupplies(kvMap, c) ==
    \E k \in DictKeys(kvMap) :
        canonical_header_key(k) = c /\ norm(StrCell(DictGet(kvMap, k))) # <<>>

\* C15: when both readers supply a non-empty value for the same canonical
\* key, the document built from their merge carries the value of the
\* row-transposed reader under that key.
C15_RowValuesWin ==
    hdr_done =>
        \A c \in CanonicalHeaderKeys :
            (KvSupplies(kv, c) /\ c \in DictKeys(rv))
                => DictGet(sop_out, c) = DictGet(rv, c)

\* C19 (Header sheet): read_header_row_values accepts a row as the row of
\* field names only if its cells resolve to at least 3 different canonical
\* header keys.
C19_FieldRowDistinctKeys ==
    (hdr_done /\ rv_best_i # -1)
        => Cardinality({canonical_header_key(norm(header_sheet[rv_best_i + 1][j])) :
                           j \in 1..Len(header_sheet[rv_best_i + 1])} \ {NoKey})
              >= MinHeaderHits


(***************************************************************************)
(* SpecStepsSheet: a Steps sheet whose header row has to be found, read by *)
(* find_steps_header_row and by read_steps (v5)                            *)
(***************************************************************************)
\* the most rows of a Steps sheet after its leading blank rows
MaxStepsSheetRows == 4

\* the rows a Steps sheet is made of, four cells wide: a header of three
\* columns, a header of four with a notes column, a row of three synonyms
\* of `order`, data rows (order read, order blank), a blank row; a header
\* row below the header is a data row whose order is no integer
StepsSheetRows ==
    { <<StrCell(<<"O", "r", "d", "e", "r">>), StrCell(<<"T", "i", "t", "l", "e">>), StrCell(<<"C", "o", "m", "m", "a", "n", "d">>), NoneCell>>,
      <<StrCell(<<"O", "r", "d", "e", "r">>), StrCell(<<"T", "i", "t", "l", "e">>), StrCell(<<"C", "o", "m", "m", "a", "n", "d">>), StrCell(<<"N", "o", "t", "e", "s">>)>>,
      <<StrCell(<<"S", "t", "e", "p">>), StrCell(<<"s", "e", "q">>), StrCell(<<"S", "e", "q", "u", "e", "n", "c", "e">>), NoneCell>>,
      <<IntCell(2), StrCell(<<"C", "a", "l", "i", "b", "r", "a", "t", "e">>), StrCell(<<"r", "u", "n", " ", "c", "a", "l", "i", "b", ".", "s", "h">>), StrCell(<<"n", "1">>)>>,
      <<IntCell(1), StrCell(<<"P", "r", "e", "p">>), StrCell(<<"e", "c", "h", "o", " ", "h", "i">>), NoneCell>>,
      <<NoneCell, StrCell(<<"R", "i", "n", "s", "e">>), NoneCell, StrCell(<<"l", "a", "t", "e", "r">>)>>,
      <<NoneCell, NoneCell, NoneCell, NoneCell>> }

\* the blank rows that put the next row of a sheet at the end of the window
\* and the one after it behind the window
LeadingBlankStepRows == StepsScanRows - 1

\* the sheets of at most n rows from row 1 on, or of fewer rows at the end of
\* the window
StepsSheetsUpTo(n) ==
    {d : d \in UNION {[1..k -> StepsSheetRows] : k \in 0..n}}
    \cup {BlankRows(LeadingBlankStepRows) \o d :
             d \in UNION {[1..k -> StepsSheetRows] : k \in 1..(n - 2)}}

StepsSheets == StepsSheetsUpTo(MaxStepsSheetRows)

StepsSheetInit ==
    /\ sheet \in StepsSheets
    /\ v4_steps = <<>>
    /\ v4_done = FALSE
    /\ v5_steps = <<>>
    /\ v5_done = FALSE

\* find_steps_header_row runs on the rows of the sheet
FindStepsHeaderRow ==
    /\ ~scan_done
    /\ steps_hdr_i' = find_steps_header_row(sheet)
    /\ scan_done' = TRUE
    /\ UNCHANGED <<header_sheet, kv, rv, rv_best_i>>
    /\ UNCHANGED <<slugVars, stepVars, headerVars, injectVars, resolveVars, probeVars>>

StepsSheetNext == FindStepsHeaderRow \/ ReadStepsV5

InitStepsSheet == StepsSheetInit /\ SlugIdle /\ HeaderIdle /\ InjectIdle /\ SheetIdle /\ ResolveIdle /\ ProbeIdle

SpecStepsSheet == InitStepsSheet /\ [][StepsSheetNext]_vars

\* C14: every record a step extractor returns has notes = "" and runs = [],
\* whatever the sheet holds.
C14_NotesEmptyAtCreation ==
    /\ v5_done => \A i \in 1..Len(v5_steps) :
                      v5_steps[i].notes = <<>> /\ v5_steps[i].runs = <<>>
    /\ v4_done => \A i \in 1..Len(v4_steps) :
                      v4_steps[i].notes = <<>> /\ v4_steps[i].runs = <<>>

\* a text that is an integer written in plain decimal digits
PlainInt(str) == str # <<>> /\ \A k \in 1..Len(str) : str[k] \in Digits

\* the 0-based indices of the rows after the header that are not blank
NonBlankRowsAfter(rows, h) ==
    {r \in (h + 1)..(Len(rows) - 1) : \E j \in 1..Len(rows[r + 1]) : norm(rows[r + 1][j]) # <<>>}

\* C17: in read_steps (v5) a row whose order cell is blank or no integer gets
\* order = (number of records produced from earlier rows) + 1; blank rows
\* give no record and are not counted; header [Order, Title, Command] with
\* rows [2, Calibrate, ..], blank, [1, Prep, ..] gives Prep then Calibrate.
C17_FallbackOrderCountsRecords ==
    v5_done =>
        LET h == find_steps_header_row(sheet) IN
        /\ h # -1 =>
              LET col_map == StepColMap([j \in 1..Len(sheet[h + 1]) |-> norm(sheet[h + 1][j])])
              IN  /\ {v5_steps[i].row : i \in 1..Len(v5_steps)} = NonBlankRowsAfter(sheet, h)
                  /\ Len(v5_steps) = Cardinality(NonBlankRowsAfter(sheet, h))
                  /\ \A i \in 1..Len(v5_steps) :
                        ~PlainInt(StepGet(col_map, sheet[v5_steps[i].row + 1], <<"o", "r", "d", "e", "r">>))
                            => v5_steps[i].order =
                                 Cardinality({r \in NonBlankRowsAfter(sheet, h) :
                                                 r < v5_steps[i].row}) + 1
        /\ sheet = << <<StrCell(<<"O", "r", "d", "e", "r">>), StrCell(<<"T", "i", "t", "l", "e">>), StrCell(<<"C", "o", "m", "m", "a", "n", "d">>), NoneCell>>,
                      <<IntCell(2), StrCell(<<"C", "a", "l", "i", "b", "r", "a", "t", "e">>), StrCell(<<"r", "u", "n", " ", "c", "a", "l", "i", "b", ".", "s", "h">>), StrCell(<<"n", "1">>)>>,
                      <<NoneCell, NoneCell, NoneCell, NoneCell>>,
                      <<IntCell(1), StrCell(<<"P", "r", "e", "p">>), StrCell(<<"e", "c", "h", "o", " ", "h", "i">>), NoneCell>> >>
              => /\ Len(v5_steps) = 2
                 /\ <<v5_steps[1].order, v5_steps[1].title>> = <<1, <<"P", "r", "e", "p">>>>
                 /\ <<v5_steps[2].order, v5_steps[2].title>> = <<2, <<"C", "a", "l", "i", "b", "r", "a", "t", "e">>>>

\* a sheet with a record, a blank row and then a row with a blank order cell
\* was read: the last row got order 2, the blank row not being counted
C17_Witness ==
    /\ v5_done
    /\ sheet = << <<StrCell(<<"O", "r", "d", "e", "r">>), StrCell(<<"T", "i", "t", "l", "e">>), StrCell(<<"C", "o", "m", "m", "a", "n", "d">>), NoneCell>>,
                  <<IntCell(1), StrCell(<<"P", "r", "e", "p">>), StrCell(<<"e", "c", "h", "o", " ", "h", "i">>), NoneCell>>,
                  <<NoneCell, NoneCell, NoneCell, NoneCell>>,
                  <<NoneCell, StrCell(<<"R", "i", "n", "s", "e">>), NoneCell, StrCell(<<"l", "a", "t", "e", "r">>)>> >>
    /\ Len(v5_steps) = 2
    /\ <<v5_steps[2].order, v5_steps[2].title, v5_steps[2].row>> = <<2, <<"R", "i", "n", "s", "e">>, 3>>

\* the canonical step columns the cells of a row resolve to
StepKeysOf(row) == {canon_step_col(row[j]) : j \in 1..Len(row)} \ {NoKey}

\* C19: find_steps_header_row accepts a row as header only if its cells
\* resolve to at least 3 different canonical step columns.
C19_StepsHeaderDistinctKeys ==
    (scan_done /\ steps_hdr_i # -1)
        => Cardinality(StepKeysOf(sheet[steps_hdr_i + 1])) >= MinHeaderHits


(***************************************************************************)
(* SpecScan: the two scans for a header row, each on its own sheet         *)
(***************************************************************************)
\* the most rows of the sheet of a workbook that has one sheet with rows
MaxScanRows == 3

\* a workbook of which one sheet has rows, the Steps sheet or the Header
\* sheet, or of which both have two rows about the end of the window
ScanInit ==
    /\ \/ sheet \in StepsSheetsUpTo(MaxScanRows) /\ header_sheet = <<>>
       \/ sheet = <<>> /\ header_sheet \in HeaderSheetsUpTo(MaxScanRows)
       \/ /\ sheet \in {BlankRows(LeadingBlankStepRows) \o d : d \in [1..2 -> StepsSheetRows]}
          /\ header_sheet \in {BlankRows(LeadingBlankRows) \o d : d \in [1..2 -> HeaderSheetRows]}
    /\ v4_steps = <<>>
    /\ v4_done = FALSE
    /\ v5_steps = <<>>
    /\ v5_done = FALSE
    /\ kv = <<>>
    /\ rv = <<>>
    /\ rv_best_i = -1
    /\ steps_hdr_i = -1
    /\ scan_done = FALSE

ScanNext == FindStepsHeaderRow \/ MainHeaderV5

InitScan == ScanInit /\ SlugIdle /\ HeaderIdle /\ InjectIdle /\ ResolveIdle /\ ProbeIdle

SpecScan == InitScan /\ [][ScanNext]_vars

\* the rows of the window: the first `window` rows, less `kept` rows at the end
\* of the sheet (0-based indices)
WindowRows(rows, window, kept) ==
    {i \in 0..(Len(rows) - 1) : i < window /\ i < Len(rows) - kept}

\* the row `chosen` is, among the rows of the window, the first of those with
\* the most hits
FirstOfMostHits(chosen, inWindow, hitsOf(_)) ==
    /\ chosen \in inWindow
    /\ \A i \in inWindow : hitsOf(i) <= hitsOf(chosen)
    /\ \A i \in inWindow : hitsOf(i) = hitsOf(chosen) => chosen <= i

\* C20: the row a scan selects as header is the lowest-indexed row of its
\* window that has the most hits (the window being the first 30 rows for
\* find_steps_header_row, the first 15 rows less the last row of the sheet
\* for read_header_row_values); no row outside the window is selected.
C20_FirstMaximalRowInWindow ==
    /\ (scan_done /\ steps_hdr_i # -1) =>
          LET StepHitsAt(i) == StepHits(sheet[i + 1])
          IN  FirstOfMostHits(steps_hdr_i, WindowRows(sheet, 30, 0), StepHitsAt)
    /\ (hdr_done /\ rv_best_i # -1) =>
          LET FieldHitsAt(i) == FieldHits(header_sheet[i + 1])
          IN  FirstOfMostHits(rv_best_i, WindowRows(header_sheet, 15, 1), FieldHitsAt)

\* a Steps sheet with a header of three columns in row 30 and one of four
\* columns in row 31 was scanned, and a Header sheet with three fields in row
\* 15 and four in row 16: each scan took the row in its window, not the row
\* with more hits behind it
C20_Witness ==
    /\ scan_done
    /\ Len(sheet) = 31
    /\ StepHits(sheet[30]) = 3
    /\ StepHits(sheet[31]) = 4
    /\ steps_hdr_i = 29
    /\ hdr_done
    /\ Len(header_sheet) = 16
    /\ FieldHits(header_sheet[15]) = 3
    /\ FieldHits(header_sheet[16]) = 4
    /\ rv_best_i = 14


\* the text holds two matches of a pattern, one behind the other
TwoMatches(str, Search(_)) ==
    /\ Search(str).found
    /\ Search(SubSeq(str, Search(str).end + 1, Len(str))).found

\* the template holds two `let steps = [...];` assignments the builder's
\* pattern matches, and no steps marker
TwoStepsPatterns ==
    /\ ~Contains(tpl_text, STEPS_JSON)
    /\ builder = "v4f_v1a" => TwoMatches(tpl_text, InjectStepsPattern)
    /\ builder = "v5" => TwoMatches(tpl_text, STEPS_RE)

\* C16: when the template holds two `let steps = [...];` assignments, the
\* injection of v4f_v1a and of v5 ends with an error and no output text is
\* produced.
C16_TwoStepsPatternsFatal ==
    (builder \in {"v4f_v1a", "v5"} /\ run # "start" /\ TwoStepsPatterns)
    => (run = "error" /\ ~out_file.written)

\* C18: in load_steps_from_excel a row that is not blank and whose order
\* cell is missing or no integer gets as order its 1-based position among
\* the rows read, the blank rows skipped before it not being counted.
C18_FallbackOrderIsPosition ==
    v4_done =>
        \A i \in 1..Len(v4_steps) :
            sheet[v4_steps[i].row + 2][1].t # "int"
                => v4_steps[i].order =
                     Cardinality({j \in 1..Len(v4_steps) :
                                     v4_steps[j].row < v4_steps[i].row}) + 1


(***************************************************************************)
(* SpecStreak: a Steps sheet with runs of blank rows, read by read_steps   *)
(***************************************************************************)
\* the most parts (a data row or a run of blank rows) below the header
MaxStreakParts == 6

\* the parts: a row that is not blank, and runs of blank rows of one row less
\* than the threshold and of the threshold
StreakParts ==
    { << <<NoneCell, StrCell(<<"R", "i", "n", "s", "e">>), NoneCell, StrCell(<<"l", "a", "t", "e", "r">>)>> >>,
      BlankRows(StepsBlankStreak - 1),
      BlankRows(StepsBlankStreak) }

RECURSIVE Concat(_)
\* the rows of a sequence of parts
Concat(parts) == IF parts = <<>> THEN <<>> ELSE Head(parts) \o Concat(Tail(parts))

StreakInit ==
    /\ sheet \in
          {<< <<StrCell(<<"O", "r", "d", "e", "r">>), StrCell(<<"T", "i", "t", "l", "e">>), StrCell(<<"C", "o", "m", "m", "a", "n", "d">>), NoneCell>> >>
              \o Concat(parts) :
                 parts \in UNION {[1..k -> StreakParts] : k \in 0..MaxStreakParts}}
    /\ v4_steps = <<>>
    /\ v4_done = FALSE
    /\ v5_steps = <<>>
    /\ v5_done = FALSE

InitStreak == StreakInit /\ SlugIdle /\ HeaderIdle /\ InjectIdle /\ SheetIdle /\ ResolveIdle /\ ProbeIdle

SpecStreak == InitStreak /\ [][ReadStepsV5]_vars

\* row r (0-based) of the sheet is fully blank
BlankAt(rows, r) == \A j \in 1..Len(rows[r + 1]) : norm(rows[r + 1][j]) = <<>>

\* between the header h and row r lies a run of 10 consecutive blank rows
StreakBefore(rows, h, r) ==
    \E a \in (h + 1)..(r - 10) : \A j \in a..(a + 9) : BlankAt(rows, j)

\* C21: read_steps stops at the 10th consecutive blank row below the
\* header: a row that is not blank yields a step exactly when no run of 10
\* consecutive blank rows lies between the header and it; runs of at most 9
\* blank rows, however many, stop nothing (every row that is not blank sets
\* the streak back to 0).
C21_StopsAtTenthBlankRow ==
    v5_done =>
        LET h == find_steps_header_row(sheet) IN
        /\ h = 0
        /\ {v5_steps[i].row : i \in 1..Len(v5_steps)}
              = {r \in 1..(Len(sheet) - 1) :
                    ~BlankAt(sheet, r) /\ ~StreakBefore(sheet, h, r)}
        /\ Len(v5_steps) = Cardinality({v5_steps[i].row : i \in 1..Len(v5_steps)})

\* a sheet with 9 blank rows, a row, 9 blank rows, a row, 10 blank rows and
\* a row was read: the first two rows gave steps, the last one none
C21_Witness ==
    /\ v5_done
    /\ Len(sheet) = 32
    /\ \A r \in 1..31 : BlankAt(sheet, r) <=> r \notin {10, 20, 31}
    /\ {v5_steps[i].row : i \in 1..Len(v5_steps)} = {10, 20}


(***************************************************************************)
(* SpecResolve: one label resolved by canonical_header_key and by          *)
(* canon_step_col                                                          *)
(***************************************************************************)
\* the synonyms of a table, and its canonical keys
AllSynonyms(table) == UNION {table[k][2] : k \in 1..Len(table)}

TableKeys(table) == {table[k][1] : k \in 1..Len(table)}

\* the upper-case letter of a character, for the spelling of labels
UpperChar(c) == IF c \in Lowers THEN CHOOSE u \in Uppers : LowerOf[u] = c ELSE c

Upper(str) == [k \in 1..Len(str) |-> UpperChar(str[k])]

\* the words labels are spelled from: every synonym and every canonical key
\* of the two tables
LabelWords ==
    AllSynonyms(HEADER_KEY_SYNONYMS) \cup AllSynonyms(STEP_COL_SYNONYMS)
    \cup TableKeys(HEADER_KEY_SYNONYMS) \cup TableKeys(STEP_COL_SYNONYMS)

\* the labels: each word as it is, in capitals between white space, with a
\* letter behind it, with a letter in front of it, without its last
\* character, and with its first space doubled; the empty label; a word of
\* no table
Labels ==
    UNION {{w,
            <<" ", "\t">> \o Upper(w) \o <<"U+00A0", "\n">>,
            w \o <<"s">>,
            <<"x">> \o w,
            SubSeq(w, 1, Len(w) - 1),
            IF \E k \in 1..Len(w) : w[k] = " "
            THEN LET k == CHOOSE j \in 1..Len(w) : w[j] = " " /\ \A m \in 1..(j - 1) : w[m] # " "
                 IN  SubSeq(w, 1, k) \o SubSeq(w, k, Len(w))
            ELSE w} : w \in LabelWords}
    \cup {<<>>, <<"b", "o", "g", "u", "s">>}

ResolveInit ==
    /\ res_label \in Labels
    /\ header_key = <<>>
    /\ step_key = <<>>
    /\ resolved = FALSE

\* both resolvers run on the label
Resolve ==
    /\ ~resolved
    /\ header_key' = canonical_header_key(res_label)
    /\ step_key' = canon_step_col(StrCell(res_label))
    /\ resolved' = TRUE
    /\ UNCHANGED res_label
    /\ UNCHANGED <<slugVars, stepVars, headerVars, injectVars, sheetVars, probeVars>>

InitResolve == ResolveInit /\ SlugIdle /\ StepsIdle /\ HeaderIdle /\ InjectIdle /\ SheetIdle /\ ProbeIdle

SpecResolve == InitResolve /\ [][Resolve]_vars

\* the label, trimmed and lower-cased
Normalized(str) == Lower(StripChars(str, Whitespace))

\* the result a table asks for: c when the normalized label is one of the
\* synonyms of c, no key when it is a synonym of no key
ResolvesAsTable(result, table, str) ==
    /\ \A k \in 1..Len(table) : result = table[k][1] <=> Normalized(str) \in table[k][2]
    /\ result = NoKey <=> Normalized(str) \notin AllSynonyms(table)

\* C22: canonical_header_key and canon_step_col return the canonical key c
\* for a label exactly when the label, trimmed and lower-cased, is one of the
\* synonyms of c, and no key otherwise.
C22_ExactSynonymMatch ==
    resolved =>
        /\ ResolvesAsTable(header_key, HEADER_KEY_SYNONYMS, res_label)
        /\ ResolvesAsTable(step_key, STEP_COL_SYNONYMS, res_label)

\* the label "SOP ID" in capitals between white space was resolved to id by
\* canonical_header_key and to nothing by canon_step_col
C22_Witness ==
    /\ resolved
    /\ res_label = <<" ", "\t">> \o <<"S", "O", "P", " ", "I", "D">> \o <<"U+00A0", "\n">>
    /\ header_key = <<"i", "d">>
    /\ step_key = NoKey

\* the synonym sets of different keys of a table have no word in common
DisjointSynonyms(table) ==
    \A i, j \in 1..Len(table) : i # j => table[i][2] \cap table[j][2] = {}

\* the key of the last entry of the table that has the word among its synonyms
LastCanon(table, key) ==
    LET hits == {k \in 1..Len(table) : key \in table[k][2]}
    IN  IF hits = {} THEN NoKey
        ELSE table[CHOOSE k \in hits : \A m \in hits : m <= k][1]

\* C30: within HEADER_KEY_SYNONYMS and within STEP_COL_SYNONYMS the synonym
\* sets of different canonical keys are disjoint, so a resolver that tries
\* the keys in the opposite order gives the same result, and every
\* canonical key resolves to itself.
C30_SynonymTablesAreFunctions ==
    /\ DisjointSynonyms(HEADER_KEY_SYNONYMS)
    /\ DisjointSynonyms(STEP_COL_SYNONYMS)
    /\ \A c \in TableKeys(HEADER_KEY_SYNONYMS) : canonical_header_key(c) = c
    /\ \A c \in TableKeys(STEP_COL_SYNONYMS) : canon_step_col(StrCell(c)) = c
    /\ resolved =>
          /\ header_key = LastCanon(HEADER_KEY_SYNONYMS, Normalized(res_label))
          /\ step_key = LastCanon(STEP_COL_SYNONYMS, Normalized(res_label))

\* the label "name", a synonym in both tables, was resolved: to name by
\* canonical_header_key and to title by canon_step_col
C30_Witness ==
    /\ resolved
    /\ res_label = <<"n", "a", "m", "e">>
    /\ header_key = <<"n", "a", "m", "e">>
    /\ step_key = <<"t", "i", "t", "l", "e">>


(***************************************************************************)
(* The passes of apply_template (v4f_v1a) one by one, in SpecInject         *)
(***************************************************************************)
\* meta_placeholders.get("APP_TITLE", "Checklist")
AppTitleOf(meta_placeholders) ==
    DictGetOr(meta_placeholders, <<"A", "P", "P", "_", "T", "I", "T", "L", "E">>, <<"C", "h", "e", "c", "k", "l", "i", "s", "t">>)

\* meta_placeholders.get("APP_TITLE_VISIBLE", meta_placeholders.get("APP_TITLE", "Checklist"))
VisibleTitleOf(meta_placeholders) ==
    DictGetOr(meta_placeholders, <<"A", "P", "P", "_", "T", "I", "T", "L", "E", "_", "V", "I", "S", "I", "B", "L", "E">>, AppTitleOf(meta_placeholders))

\* C23: _inject_steps (v4f_v1a) tries the marker, then the structural
\* pattern, then fails: with {{STEPS_JSON}} in the template the marker is
\* replaced by the serialized steps and nothing else changes, a
\* `let steps = [...];` assignment staying as it was; without the marker
\* and with the assignment, the pass succeeds and the text before and
\* behind the assignment stays as it was; the pass fails only when the
\* template has neither.
C23_MarkerThenPatternThenError ==
    (builder = "v4f_v1a" /\ run # "start") =>
        LET steps_json == json_dumps_list(doc_steps, FALSE)
            m == InjectStepsPattern(tpl_text)
        IN  /\ Contains(tpl_text, STEPS_JSON) =>
                  /\ injected.ok
                  /\ injected.text = Replace(tpl_text, STEPS_JSON, steps_json)
            /\ (~Contains(tpl_text, STEPS_JSON) /\ m.found) =>
                  /\ injected.ok
                  /\ SubSeq(injected.text, 1, m.start - 1) = SubSeq(tpl_text, 1, m.start - 1)
                  /\ SubSeq(injected.text, Len(injected.text) - (Len(tpl_text) - m.end) + 1,
                            Len(injected.text))
                        = SubSeq(tpl_text, m.end + 1, Len(tpl_text))
            /\ ~injected.ok => (~Contains(tpl_text, STEPS_JSON) /\ ~m.found)

\* C24: in apply_template (v4f_v1a), when the text has neither
\* {{APP_TITLE}} nor a <title> element, and neither {{APP_TITLE_VISIBLE}}
\* nor a div with id="headerTitle", the two title passes raise nothing and
\* leave the text as it is, so the file written is the text after the steps
\* pass with the placeholders of the keys of meta_placeholders replaced and
\* every other {{...}} token as it was.
C24_OptionalSlotsPassThrough ==
    ( /\ builder = "v4f_v1a"
      /\ run # "start"
      /\ injected.ok
      /\ ~Contains(injected.text, <<"{", "{", "A", "P", "P", "_", "T", "I", "T", "L", "E", "}", "}">>)
      /\ ~TitlePattern(injected.text).found
      /\ ~Contains(injected.text, <<"{", "{", "A", "P", "P", "_", "T", "I", "T", "L", "E", "_", "V", "I", "S", "I", "B", "L", "E", "}", "}">>)
      /\ ~HeaderTitlePattern(injected.text).found )
    => /\ run = "done"
       /\ out_file.written
       /\ out_file.text = ReplacePlaceholders(injected.text, doc_meta)

\* the text s with the second group of the match m replaced by value
PatchGroup2(s, m, value) ==
    SubSeq(s, 1, m.g1end) \o value \o SubSeq(s, m.g2end + 1, Len(s))

\* C27: when the text has no {{APP_TITLE}} and has a <title> element,
\* _replace_or_patch_title (v4f_v1a) gives the text with the content of the
\* first <title> element replaced by the title, character for character,
\* and nothing else changed; the same for _replace_or_patch_header_title
\* with {{APP_TITLE_VISIBLE}} and the first div with id="headerTitle".
C27_TitlePatchVerbatim ==
    (builder = "v4f_v1a" /\ run # "start" /\ injected.ok) =>
        LET h2 == replace_or_patch_title(injected.text, AppTitleOf(doc_meta))
            tm == TitlePattern(injected.text)
        IN  /\ (~Contains(injected.text, <<"{", "{", "A", "P", "P", "_", "T", "I", "T", "L", "E", "}", "}">>) /\ tm.found) =>
                  /\ h2.ok
                  /\ h2.text = PatchGroup2(injected.text, tm, AppTitleOf(doc_meta))
                  /\ out_file.written
            /\ h2.ok =>
                  LET h3 == replace_or_patch_header_title(h2.text, VisibleTitleOf(doc_meta))
                      hm == HeaderTitlePattern(h2.text)
                  IN  (~Contains(h2.text, <<"{", "{", "A", "P", "P", "_", "T", "I", "T", "L", "E", "_", "V", "I", "S", "I", "B", "L", "E", "}", "}">>) /\ hm.found) =>
                          /\ h3.ok
                          /\ h3.text = PatchGroup2(h2.text, hm, VisibleTitleOf(doc_meta))
                          /\ out_file.written


(***************************************************************************)
(* SpecNoHit: a workbook whose Steps sheet is read by read_steps and whose *)
(* Header sheet is read by main of v5, each sheet with or without a row    *)
(* that its scan accepts                                                   *)
(***************************************************************************)
\* the most rows of a sheet after its leading blank rows
MaxNoHitRows == 2

\* a workbook of which one sheet has rows, or of which both have two rows
\* behind the window of their scan
NoHitInit ==
    /\ \/ sheet \in StepsSheetsUpTo(MaxNoHitRows) /\ header_sheet = <<>>
       \/ sheet = <<>> /\ header_sheet \in HeaderSheetsUpTo(MaxNoHitRows)
       \/ /\ sheet \in {BlankRows(StepsScanRows) \o d : d \in [1..2 -> StepsSheetRows]}
          /\ header_sheet \in {BlankRows(HeaderScanRows) \o d : d \in [1..2 -> HeaderSheetRows]}
    /\ v4_steps = <<>>
    /\ v4_done = FALSE
    /\ v5_steps = <<>>
    /\ v5_done = FALSE
    /\ kv = <<>>
    /\ rv = <<>>
    /\ rv_best_i = -1
    /\ steps_hdr_i = -1
    /\ scan_done = FALSE

NoHitNext == ReadStepsV5 \/ MainHeaderV5

InitNoHit == NoHitInit /\ SlugIdle /\ HeaderIdle /\ InjectIdle /\ ResolveIdle /\ ProbeIdle

SpecNoHit == InitNoHit /\ [][NoHitNext]_vars

\* C25: when no row of the window of a scan has as many hits as the
\* threshold asks for, read_steps returns the empty list and
\* read_header_row_values returns the empty map, and the document
\* build_sopinfo makes of an empty map is the table of defaults.
C25_NoHeaderRowGivesEmpty ==
    /\ ( /\ v5_done
         /\ \A i \in WindowRows(sheet, StepsScanRows, 0) :
               StepHits(sheet[i + 1]) < MinHeaderHits )
       => v5_steps = <<>>
    /\ ( /\ hdr_done
         /\ \A i \in WindowRows(header_sheet, HeaderScanRows, 1) :
               FieldHits(header_sheet[i + 1]) < MinHeaderHits )
       => rv = <<>>
    /\ (hdr_done /\ header_in = <<>>) => sop_out = SopInfoBase

\* both sheets were read, the Steps sheet with a header of three columns and
\* a data row behind its window, the Header sheet with a row of three fields
\* and a row of values behind its window: no step, no value, the defaults
C25_Witness ==
    /\ v5_done
    /\ Len(sheet) = StepsScanRows + 2
    /\ StepHits(sheet[StepsScanRows + 1]) = 3
    /\ norm(sheet[StepsScanRows + 2][2]) = <<"P", "r", "e", "p">>
    /\ v5_steps = <<>>
    /\ hdr_done
    /\ Len(header_sheet) = HeaderScanRows + 2
    /\ FieldHits(header_sheet[HeaderScanRows + 1]) = 3
    /\ norm(header_sheet[HeaderScanRows + 2][1]) = <<"R", "-", "9">>
    /\ rv = <<>>
    /\ header_in = <<>>
    /\ sop_out = SopInfoBase


(***************************************************************************)
(* SpecParts: one row with the sub-field columns of command and reminder,  *)
(* read by load_steps_from_excel (v4f1)                                    *)
(***************************************************************************)
\* the column names of the sheet: the title and the eight sub-fields
PartsHeader ==
    <<StrCell(<<"T", "i", "t", "l", "e">>), StrCell(<<"C", "o", "m", "m", "a", "n", "d">>), StrCell(<<"P", "r", "o", "g", "r", "a", "m">>),
      StrCell(<<"V", "a", "r", "i", "a", "n", "t", "s">>), StrCell(<<"I", "n", "p", "u", "t", "N", "e", "e", "d", "e", "d">>), StrCell(<<"O", "u", "t", "p", "u", "t", "F", "i", "l", "e">>),
      StrCell(<<"O", "u", "t", "p", "u", "t", "F", "o", "l", "d", "e", "r">>), StrCell(<<"H", "i", "n", "t", "s">>), StrCell(<<"P", "h", "a", "s", "e">>)>>

\* a sub-field cell: missing, white space only, a value
PartCells == {NoneCell, StrCell(<<" ", " ">>), StrCell(<<"v">>)}

PartsInit ==
    /\ sheet \in {<<PartsHeader, <<StrCell(<<"t">>)>> \o parts>> : parts \in [1..8 -> PartCells]}
    /\ v4_steps = <<>>
    /\ v4_done = FALSE
    /\ v5_steps = <<>>
    /\ v5_done = FALSE

InitParts == PartsInit /\ SlugIdle /\ HeaderIdle /\ InjectIdle /\ SheetIdle /\ ResolveIdle /\ ProbeIdle

SpecParts == InitParts /\ [][LoadStepsV4f1]_vars

\* the cell has a value that is more than white space
Filled(c) == ~isna(c) /\ StripChars(CellStr(c), Whitespace) # <<>>

\* the labels of the sub-fields, by column of the sheet, without the space
\* behind them
PartLabels ==
    <<<<>>, <<>>, <<"[", "P", "r", "o", "g", "r", "a", "m", "]">>, <<"[", "V", "a", "r", "i", "a", "n", "t", "s", "]">>, <<"I", "n", "p", "u", "t", "s", ":">>, <<"O", "u", "t", "F", "i", "l", "e", ":">>,
      <<"O", "u", "t", "F", "o", "l", "d", "e", "r", ":">>, <<"H", "i", "n", "t", "s", ":">>, <<"P", "h", "a", "s", "e", ":">>>>

\* the fragment of column j of the row: the value behind its label
Labelled(row, j) ==
    IF Filled(row[j])
    THEN <<(IF PartLabels[j] = <<>> THEN <<>> ELSE PartLabels[j] \o <<" ">>)
           \o CellStr(row[j])>>
    ELSE <<>>

\* C26: command is the sub-fields Command, Program and Variants that have a
\* value, in this order, the last two behind their labels, joined by a blank
\* line; reminder is the sub-fields Inputs, OutFile, OutFolder, Hints and
\* Phase that have a value, in this order, each behind its label, joined by
\* " | "; a sub-field whose cell is missing or white space only contributes
\* nothing, so its label is in neither string.
C26_NoEmptyLabelledFragment ==
    (v4_done /\ Len(sheet) = 2 /\ sheet[1] = PartsHeader) =>
        LET row == sheet[2]
            step == v4_steps[1]
        IN  /\ Len(v4_steps) = 1
            /\ step.command =
                  Join(Labelled(row, 2) \o Labelled(row, 3) \o Labelled(row, 4),
                       <<"\n", "\n">>)
            /\ step.reminder =
                  Join(Labelled(row, 5) \o Labelled(row, 6) \o Labelled(row, 7)
                       \o Labelled(row, 8) \o Labelled(row, 9), <<" ", "|", " ">>)
            /\ \A j \in 3..9 :
                  ~Filled(row[j]) => /\ ~Contains(step.command, PartLabels[j])
                                     /\ ~Contains(step.reminder, PartLabels[j])

\* the characters of a machine-safe id
SafeIdChars == Lowers \cup Digits \cup {"_"}

\* C29: every step id load_steps_from_excel (v4f1) produces consists of
\* lower-case ASCII letters, digits and underscores only, be it the
\* sanitized raw id, the fallback step_<order> or an id with a suffix _k.
C29_IdCharset ==
    v4_done =>
        \A i \in 1..Len(v4_steps) :
            \A k \in 1..Len(v4_steps[i].id) : v4_steps[i].id[k] \in SafeIdChars


(***************************************************************************)
(* SpecProbe: the loop of load_steps_from_excel (v4f1) row by row, and     *)
(* ensure_unique_id statement by statement                                 *)
(***************************************************************************)
\* the most data rows of a sheet of SpecProbe
MaxProbeRows == 3

\* the rows of the sheets: those of SpecIds and the blank row
ProbeRows == IdRows \cup {<<NoneCell, NoneCell>>}

\* the candidates and the sets of ids of a call of ensure_unique_id on its own
ProbeCandidates == {<<"a">>, <<"a", "_", "2">>}

ProbeIds == {<<"a">>, <<"a", "_", "2">>, <<"a", "_", "3">>, <<"a", "_", "2", "_", "2">>}

\* the data frame of a sheet
ProbeFrame(rows) == IF rows = <<>> THEN <<>> ELSE Tail(rows)

\* the candidate id of each row of the data frame, <<>> for a blank row:
\* slugify_step_id(raw_step_id) or f"step_{order_val}", which depends on the
\* row and its index and not on used_ids
Candidates(rows) ==
    [k \in 1..Len(ProbeFrame(rows)) |->
        LET row == ProbeFrame(rows)[k] IN
        IF \A j \in 1..Len(row) : isna(row[j]) THEN <<>>
        ELSE v4f1_step(row, k - 1, v4f1_columns(Head(rows)), {}).step.candidate]

\* the loader before its first row, or a call of ensure_unique_id on its own
\* (no sheet: the loop ends when the call has returned)
ProbeInit ==
    /\ \/ /\ sheet \in {<<IdSheetHeader>> \o d :
                           d \in UNION {[1..k -> ProbeRows] : k \in 0..MaxProbeRows}}
          /\ eu_candidate = <<>>
          /\ eu_used = {}
          /\ eu_pc = "loop"
       \/ /\ sheet = <<>>
          /\ eu_candidate \in ProbeCandidates
          /\ eu_used \in SUBSET ProbeIds
          /\ eu_pc = "test"
    /\ eu_todo = Candidates(sheet)
    /\ eu_i = 2
    /\ eu_final = <<>>
    /\ eu_idx = 0
    /\ eu_ids = <<>>
    /\ v4_steps = <<>>
    /\ v4_done = FALSE
    /\ v5_steps = <<>>
    /\ v5_done = FALSE

\* for idx, row in df.iterrows(): a blank row is skipped, any other row gets
\* its candidate id and ensure_unique_id is called
LoopRow ==
    /\ eu_pc = "loop"
    /\ eu_idx < Len(eu_todo)
    /\ IF eu_todo[eu_idx + 1] = <<>>
       THEN /\ eu_idx' = eu_idx + 1
            /\ UNCHANGED <<eu_candidate, eu_pc>>
       ELSE /\ eu_candidate' = eu_todo[eu_idx + 1]
            /\ eu_pc' = "test"
            /\ UNCHANGED eu_idx
    /\ UNCHANGED <<eu_used, eu_i, eu_final, eu_ids, eu_todo>>
    /\ UNCHANGED <<slugVars, stepVars, headerVars, injectVars, sheetVars, resolveVars>>

\* the rows are exhausted
LoopEnd ==
    /\ eu_pc = "loop"
    /\ eu_idx >= Len(eu_todo)
    /\ eu_pc' = "done"
    /\ UNCHANGED <<eu_candidate, eu_used, eu_i, eu_final, eu_idx, eu_ids, eu_todo>>
    /\ UNCHANGED <<slugVars, stepVars, headerVars, injectVars, sheetVars, resolveVars>>

\* if candidate not in used: ... else: i = 2
EuTest ==
    /\ eu_pc = "test"
    /\ IF eu_candidate \notin eu_used
       THEN /\ eu_final' = eu_candidate
            /\ eu_pc' = "add"
            /\ UNCHANGED eu_i
       ELSE /\ eu_i' = 2
            /\ eu_pc' = "probe"
            /\ UNCHANGED eu_final
    /\ UNCHANGED <<eu_candidate, eu_used, eu_idx, eu_ids, eu_todo>>
    /\ UNCHANGED <<slugVars, stepVars, headerVars, injectVars, sheetVars, resolveVars>>

\* while f"{candidate}_{i}" in used: i += 1
EuProbe ==
    /\ eu_pc = "probe"
    /\ Suffixed(eu_candidate, eu_i) \in eu_used
    /\ eu_i' = NextProbe(eu_i)
    /\ UNCHANGED <<eu_candidate, eu_used, eu_final, eu_pc, eu_idx, eu_ids, eu_todo>>
    /\ UNCHANGED <<slugVars, stepVars, headerVars, injectVars, sheetVars, resolveVars>>

\* the loop is left: final = f"{candidate}_{i}"
EuFound ==
    /\ eu_pc = "probe"
    /\ Suffixed(eu_candidate, eu_i) \notin eu_used
    /\ eu_final' = Suffixed(eu_candidate, eu_i)
    /\ eu_pc' = "add"
    /\ UNCHANGED <<eu_candidate, eu_used, eu_i, eu_idx, eu_ids, eu_todo>>
    /\ UNCHANGED <<slugVars, stepVars, headerVars, injectVars, sheetVars, resolveVars>>

\* used.add(...); return ...: the id goes into the step of the row and the
\* loop goes on to the next row
EuReturn ==
    /\ eu_pc = "add"
    /\ eu_used' = eu_used \cup {eu_final}
    /\ eu_ids' = Append(eu_ids, eu_final)
    /\ eu_idx' = eu_idx + 1
    /\ eu_pc' = "loop"
    /\ UNCHANGED <<eu_candidate, eu_i, eu_final, eu_todo>>
    /\ UNCHANGED <<slugVars, stepVars, headerVars, injectVars, sheetVars, resolveVars>>

ProbeNext == LoopRow \/ LoopEnd \/ EuTest \/ EuProbe \/ EuFound \/ EuReturn

InitProbe == ProbeInit /\ SlugIdle /\ HeaderIdle /\ InjectIdle /\ SheetIdle /\ ResolveIdle

SpecProbe == InitProbe /\ [][ProbeNext]_vars

\* the loader is one sequential program: it takes its next statement as
\* long as it has one
SpecProbeFair == SpecProbe /\ WF_vars(ProbeNext)

\* the ids load_steps_from_excel gives the rows of the sheet, in row order
IdsInRowOrder(rows) ==
    LET steps == v4f1_rows(Tail(rows), v4f1_columns(Head(rows)), 0, <<>>, {})
    IN  [k \in 1..Len(steps) |-> steps[k].id]

\* the statements agree with the functions: the id about to be returned is
\* the one ensure_unique_id gives, and at the end of the rows the ids issued
\* are those of load_steps_from_excel
ProbeAgreesWithLoader ==
    /\ eu_pc = "add" => eu_final = ensure_unique_id(eu_candidate, eu_used).id
    /\ (eu_pc = "done" /\ sheet # <<>>) => eu_ids = IdsInRowOrder(sheet)

\* C28: every call of ensure_unique_id comes to its return, with an id that
\* was not in the set when it was called, and the set changes only by the
\* return adding that id; so the loop of load_steps_from_excel (v4f1)
\* comes to the end of the rows, having gone over each row once.
C28_UniqueIdTerminates ==
    /\ [](eu_pc = "add" => eu_final \notin eu_used)
    /\ [][eu_used' # eu_used =>
             (eu_pc = "add" /\ eu_used' = eu_used \cup {eu_final})]_vars
    /\ [][eu_idx' = eu_idx \/ eu_idx' = eu_idx + 1]_vars
    /\ [](eu_pc = "done" => eu_idx >= Len(eu_todo))
    /\ <>(eu_pc = "done")

\* the loader came to the end of three rows that gave the same candidate
\* twice and its first suffix once: the last call probed _2, found it used,
\* and returned the candidate with _3
C28_Witness ==
    /\ eu_pc = "done"
    /\ eu_idx = 3
    /\ eu_ids = <<<<"s", "t", "e", "p", "_", "a">>, <<"s", "t", "e", "p", "_", "a", "_", "2">>, <<"s", "t", "e", "p", "_", "a", "_", "3">>>>
    /\ eu_candidate = <<"s", "t", "e", "p", "_", "a">>
    /\ eu_i = 3
    /\ eu_final = <<"s", "t", "e", "p", "_", "a", "_", "3">>

====
